---------------------------- MODULE Spec2Model ----------------------------
(***************************************************************************)
(* A model of the consensus core of a Raft node (async-raft,              *)
(* src/async-raft/src/core/mod.rs): the core task (RaftCore::main and the  *)
(* four role drivers), the follower's apply worker                         *)
(* (ReplicationEventListener) and the log compaction task.                 *)
(*                                                                         *)
(* The RPC handlers, the vote tally, the leader's commit rule and the      *)
(* storage live in modules that mod.rs only declares (vote.rs,             *)
(* append_entries.rs, install_snapshot.rs, replication.rs, client.rs,      *)
(* admin.rs, raft.rs, storage.rs); they are modelled from the written      *)
(* specification and are marked so where they are defined.                 *)
(***************************************************************************)
EXTENDS Integers, Sequences, FiniteSets, TLC

(***************************************************************************)
(* Bounds of the model.                                                    *)
(***************************************************************************)
NumNodes == 4
MaxTerm == 2
MaxLog == 2
MaxFaults == 1
MaxQueue == 1

Nodes == 1..NumNodes

(***************************************************************************)
(* Option<T>: None is the empty tuple, Some(x) the one-element tuple.      *)
(***************************************************************************)
None == <<>>
Some(x) == <<x>>
IsSome(o) == o /= <<>>
Unwrap(o) == o[1]

Min(a, b) == IF a <= b THEN a ELSE b
Max(a, b) == IF a >= b THEN a ELSE b

VARIABLES
    core,             \* core[n]: the fields of RaftCore
    needs_shutdown,   \* needs_shutdown[n]: the shared AtomicBool
    storage,          \* storage[n]: the RaftStorage of node n
    pc,               \* pc[n]: where the core task of n is
    result,           \* result[n]: what the core task returned, once it has
    cand,             \* cand[n]: the fields of CandidateState
    lead,             \* lead[n]: the fields of LeaderState
    task,             \* task[n]: the follower's ReplicationTask and its worker
    builds,           \* builds[n]: the compaction tasks spawned so far, by handle
    rx_compaction,    \* rx_compaction[n]: the capacity-1 compaction channel
    metrics,          \* metrics[n]: the value last sent on the metrics watch channel
    net,              \* RPCs spawned and not yet handled, responses not yet received
    faults,           \* number of storage errors still to be injected
    observed          \* observed[n]: a loop-head test of n has read the flag as set

vars == <<core, needs_shutdown, storage, pc, result, cand, lead, task,
          builds, rx_compaction, metrics, net, faults, observed>>

(***************************************************************************)
(* MembershipConfig (raft.rs).                                             *)
(***************************************************************************)
Membership(ms, after) == [members |-> ms, members_after_consensus |-> after]

new_initial(id) == Membership({id}, None)

all_nodes(m) ==
    m.members \cup (IF IsSome(m.members_after_consensus)
                    THEN Unwrap(m.members_after_consensus) ELSE {})

contains(m, id) == id \in all_nodes(m)

is_in_joint_consensus(m) == IsSome(m.members_after_consensus)

(***************************************************************************)
(* Log entries (raft.rs): the entry at position i of a log has index i.    *)
(***************************************************************************)
NoMembership == Membership({}, None)

Entry(term, kind, data, cfg) ==
    [term |-> term, kind |-> kind, data |-> data, membership |-> cfg]

Blank(term) == Entry(term, "Blank", 0, NoMembership)
Normal(term, d) == Entry(term, "Normal", d, NoMembership)
ConfigChange(term, cfg) == Entry(term, "ConfigChange", 0, cfg)
SnapshotPointer(term) == Entry(term, "SnapshotPointer", 0, NoMembership)

TermAt(log, i) == IF i = 0 \/ i > Len(log) THEN 0 ELSE log[i].term
LastTerm(log) == TermAt(log, Len(log))


(***************************************************************************)
(* RaftStorage (storage.rs, an external capability): what one node keeps   *)
(* on disk.  sm is the sequence of <<index, data>> pairs the state machine *)
(* has been handed by replicate_to_state_machine, in the order of arrival. *)
(***************************************************************************)
HardState(term, vote) == [current_term |-> term, voted_for |-> vote]

Storage(hs, log, cfg, applied, snap, sm) ==
    [hard_state |-> hs, log |-> log, membership |-> cfg,
     last_applied_log |-> applied, snapshot |-> snap, sm |-> sm]

get_initial_state(st) ==
    [last_log_index |-> Len(st.log),
     last_log_term |-> LastTerm(st.log),
     hard_state |-> st.hard_state,
     membership |-> st.membership,
     last_applied_log |-> st.last_applied_log]

\* get_log_entries(start, stop): the entries with start <= index < stop.
get_log_entries(st, start, stop) ==
    [k \in 1..(IF Min(stop - 1, Len(st.log)) >= start
               THEN Min(stop - 1, Len(st.log)) - start + 1 ELSE 0) |->
        [index |-> start + k - 1, entry |-> st.log[start + k - 1]]]

(***************************************************************************)
(* RaftCore: the state set up by RaftCore::spawn.                          *)
(***************************************************************************)
\* Config (config.rs), the part the core reads: SnapshotPolicy::LogsSinceLast.
LogsSinceLast(threshold) == [snapshot_policy |-> threshold]

SpawnCore(id, config) ==
    [id |-> id,
     config |-> config,
     membership |-> new_initial(id),
     target_state |-> "Follower",
     commit_index |-> 0,
     last_applied |-> 0,
     current_term |-> 0,
     current_leader |-> None,
     voted_for |-> None,
     last_log_index |-> 0,
     last_log_term |-> 0,
     snapshot_state |-> None,
     snapshot_index |-> 0,
     next_election_timeout |-> None]

\* The RaftMetrics payload report_metrics broadcasts.
report_metrics(c) ==
    [id |-> c.id,
     state |-> c.target_state,
     current_term |-> c.current_term,
     last_log_index |-> c.last_log_index,
     last_applied |-> c.last_applied,
     current_leader |-> c.current_leader,
     membership_config |-> c.membership]

\* The HardState save_hard_state writes.
save_hard_state(c, st) ==
    [st EXCEPT !.hard_state = HardState(c.current_term, c.voted_for)]

set_target_state(c, target_state) ==
    LET c1 == IF target_state = "Follower" /\ ~contains(c.membership, c.id)
              THEN [c EXCEPT !.target_state = "NonVoter"]
              ELSE c
    IN  [c1 EXCEPT !.target_state = target_state]

\* Instants are not modelled: a drawn deadline is Some(1).
get_next_election_timeout(c) ==
    IF IsSome(c.next_election_timeout) THEN c
    ELSE [c EXCEPT !.next_election_timeout = Some(1)]

update_next_election_timeout(c) == [c EXCEPT !.next_election_timeout = Some(1)]

ThisNode == [kind |-> "ThisNode", target |-> 0]
OtherNode(t) == [kind |-> "OtherNode", target |-> t]
Unknown == [kind |-> "Unknown", target |-> 0]

update_current_leader(c, update) ==
    CASE update.kind = "ThisNode" -> [c EXCEPT !.current_leader = Some(c.id)]
      [] update.kind = "OtherNode" -> [c EXCEPT !.current_leader = Some(update.target)]
      [] OTHER -> [c EXCEPT !.current_leader = None]

update_current_term(c, new_term, voted_for) ==
    IF new_term > c.current_term
    THEN [c EXCEPT !.current_term = new_term, !.voted_for = voted_for]
    ELSE c

\* The error is logged and mapped, the target state left as it is.
map_fatal_storage_error_logged(c) == c

map_fatal_storage_error(c) == set_target_state(c, "Shutdown")

\* update_membership with the test of contains in both of its branches.
update_membership_contains(c, cfg) ==
    LET c1 == [c EXCEPT !.membership = cfg]
    IN  IF ~contains(c1.membership, c1.id)
        THEN set_target_state(c1, "NonVoter")
        ELSE IF c1.target_state = "NonVoter" /\ contains(c1.membership, c1.id)
             THEN set_target_state(c1, "Follower")
             ELSE c1

update_membership(c, cfg) ==
    LET c1 == [c EXCEPT !.membership = cfg]
    IN  IF ~contains(c1.membership, c1.id)
        THEN set_target_state(c1, "NonVoter")
        ELSE IF c1.target_state = "NonVoter" /\ c1.id \in c1.membership.members
             THEN set_target_state(c1, "Follower")
             ELSE c1

(***************************************************************************)
(* The RPC handlers shared by the four role drivers (vote.rs,              *)
(* append_entries.rs, install_snapshot.rs), after section 4.7 of the       *)
(* specification.  Each takes the core c, the storage st and the request   *)
(* and gives the core and storage after the call and the response.         *)
(***************************************************************************)
Handled(c, st, resp) == [core |-> c, storage |-> st, resp |-> resp]

\* The common term check: a greater term is adopted, the vote cleared, the
\* node becomes Follower.
term_check(c, term) ==
    IF term > c.current_term
    THEN set_target_state(update_current_term(c, term, None), "Follower")
    ELSE c

VoteRequest(term, candidate, lli, llt) ==
    [term |-> term, candidate_id |-> candidate,
     last_log_index |-> lli, last_log_term |-> llt]

VoteResponse(term, granted) == [term |-> term, vote_granted |-> granted]

handle_vote_request(c, st, rpc) ==
    IF rpc.term < c.current_term
    THEN Handled(c, st, VoteResponse(c.current_term, FALSE))
    ELSE LET c1 == term_check(c, rpc.term)
             up_to_date ==
                 \/ rpc.last_log_term > c1.last_log_term
                 \/ /\ rpc.last_log_term = c1.last_log_term
                    /\ rpc.last_log_index >= c1.last_log_index
             grant == /\ c1.voted_for \in {None, Some(rpc.candidate_id)}
                      /\ up_to_date
             c2 == IF grant
                   THEN update_next_election_timeout(
                            [c1 EXCEPT !.voted_for = Some(rpc.candidate_id)])
                   ELSE c1
         IN  Handled(c2, save_hard_state(c2, st), VoteResponse(c2.current_term, grant))

AppendEntriesRequest(term, leader, pli, plt, entries, commit) ==
    [term |-> term, leader_id |-> leader, prev_log_index |-> pli,
     prev_log_term |-> plt, entries |-> entries, leader_commit |-> commit]

AppendEntriesResponse(term, success) == [term |-> term, success |-> success]

\* The positions k of rpc.entries whose index holds a local entry of another term.
Conflicts(log, rpc) ==
    {k \in 1..Len(rpc.entries) :
        /\ rpc.prev_log_index + k <= Len(log)
        /\ log[rpc.prev_log_index + k].term /= rpc.entries[k].term}

FirstConflict(log, rpc) ==
    CHOOSE k \in Conflicts(log, rpc) : \A j \in Conflicts(log, rpc) : k <= j

\* Steps 3 and 4: the log after truncating at the first conflict and appending
\* what is not yet present.
MergedLog(log, rpc) ==
    IF Conflicts(log, rpc) /= {}
    THEN SubSeq(log, 1, rpc.prev_log_index + FirstConflict(log, rpc) - 1)
         \o SubSeq(rpc.entries, FirstConflict(log, rpc), Len(rpc.entries))
    ELSE log \o SubSeq(rpc.entries, Len(log) - rpc.prev_log_index + 1, Len(rpc.entries))

\* The entries of rpc that MergedLog appended.
Appended(log, rpc) ==
    IF Conflicts(log, rpc) /= {}
    THEN SubSeq(rpc.entries, FirstConflict(log, rpc), Len(rpc.entries))
    ELSE SubSeq(rpc.entries, Len(log) - rpc.prev_log_index + 1, Len(rpc.entries))

RECURSIVE apply_config_changes(_, _)
apply_config_changes(c, entries) ==
    IF entries = <<>> THEN c
    ELSE apply_config_changes(
             IF Head(entries).kind = "ConfigChange"
             THEN update_membership(c, Head(entries).membership)
             ELSE c,
             Tail(entries))

LastConfig(entries, default) ==
    LET ks == {k \in 1..Len(entries) : entries[k].kind = "ConfigChange"}
    IN  IF ks = {} THEN default
        ELSE entries[CHOOSE k \in ks : \A j \in ks : j <= k].membership

handle_append_entries_request(c, st, rpc) ==
    IF rpc.term < c.current_term
    THEN Handled(c, st, AppendEntriesResponse(c.current_term, FALSE))
    ELSE LET c1 == term_check(c, rpc.term)
             c2 == IF c1.target_state = "Candidate"
                   THEN set_target_state(c1, "Follower") ELSE c1
             c3 == update_next_election_timeout(
                       update_current_leader(c2, OtherNode(rpc.leader_id)))
             st1 == save_hard_state(c3, st)
             mismatch ==
                 \/ rpc.prev_log_index > c3.last_log_index
                 \/ /\ rpc.prev_log_index > 0
                    /\ TermAt(st.log, rpc.prev_log_index) /= rpc.prev_log_term
             log2 == MergedLog(st.log, rpc)
             c4 == [c3 EXCEPT !.last_log_index = Len(log2),
                              !.last_log_term = LastTerm(log2)]
             c5 == IF rpc.leader_commit > c4.commit_index
                   THEN [c4 EXCEPT !.commit_index =
                                       Min(rpc.leader_commit, c4.last_log_index)]
                   ELSE c4
             c6 == apply_config_changes(c5, Appended(st.log, rpc))
             st2 == [st1 EXCEPT !.log = log2,
                                !.membership = LastConfig(Appended(st.log, rpc), @)]
         IN  IF mismatch
             THEN Handled(c3, st1, AppendEntriesResponse(c3.current_term, FALSE))
             ELSE Handled(c6, st2, AppendEntriesResponse(c6.current_term, TRUE))

\* SnapshotState.
Snapshotting(through, handle) ==
    [kind |-> "Snapshotting", through |-> through, handle |-> handle,
     offset |-> 0, id |-> 0]

Streaming(offset, id) ==
    [kind |-> "Streaming", through |-> 0, handle |-> 0, offset |-> offset, id |-> id]

IsSnapshotting(c) ==
    IsSome(c.snapshot_state) /\ Unwrap(c.snapshot_state).kind = "Snapshotting"

IsStreaming(c) ==
    IsSome(c.snapshot_state) /\ Unwrap(c.snapshot_state).kind = "Streaming"

InstallSnapshotRequest(term, leader, lii, lit, offset, done, cfg) ==
    [term |-> term, leader_id |-> leader, last_included_index |-> lii,
     last_included_term |-> lit, offset |-> offset, done |-> done,
     membership_at |-> cfg]

InstallSnapshotResponse(term, ok) == [term |-> term, ok |-> ok]

\* A chunk is taken when it opens a stream (offset 0) or continues the open
\* stream of the same snapshot at the offset that stream has reached.
ChunkAccepted(c, rpc) ==
    \/ rpc.offset = 0
    \/ /\ IsStreaming(c)
       /\ Unwrap(c.snapshot_state).id = rpc.last_included_index
       /\ Unwrap(c.snapshot_state).offset = rpc.offset

\* The final chunk: the storage installs the snapshot and the node's indices
\* and membership move to the snapshot's boundary.
finalize_snapshot_installation(c, rpc) ==
    update_membership(
        [c EXCEPT !.snapshot_state = None,
                  !.last_log_index = rpc.last_included_index,
                  !.last_log_term = rpc.last_included_term,
                  !.last_applied = rpc.last_included_index,
                  !.commit_index = rpc.last_included_index,
                  !.snapshot_index = rpc.last_included_index],
        rpc.membership_at)

install_snapshot(st, rpc) ==
    [st EXCEPT !.log = [i \in 1..rpc.last_included_index |->
                            SnapshotPointer(rpc.last_included_term)],
               !.membership = rpc.membership_at,
               !.last_applied_log = rpc.last_included_index,
               !.snapshot = Some(rpc.last_included_index)]

handle_install_snapshot_request(c, st, rpc) ==
    IF rpc.term < c.current_term
    THEN Handled(c, st, InstallSnapshotResponse(c.current_term, FALSE))
    ELSE LET c1 == term_check(c, rpc.term)
             c2 == c1
             st1 == save_hard_state(c2, st)
             c3 == [c2 EXCEPT !.snapshot_state =
                        Some(Streaming(rpc.offset + 1, rpc.last_included_index))]
         IN  IF ~ChunkAccepted(c2, rpc)
             THEN Handled(c2, st1, InstallSnapshotResponse(c2.current_term, FALSE))
             ELSE IF rpc.done
                  THEN Handled(finalize_snapshot_installation(c3, rpc),
                               install_snapshot(st1, rpc),
                               InstallSnapshotResponse(c2.current_term, TRUE))
                  ELSE Handled(c3, st1, InstallSnapshotResponse(c2.current_term, TRUE))

\* The build the handler aborts: the one in progress when a stream is opened.
AbortsBuild(c, rpc) ==
    /\ rpc.term >= c.current_term
    /\ IsSnapshotting(c)
    /\ ChunkAccepted(c, rpc)

(***************************************************************************)
(* Log compaction (RaftCore::trigger_log_compaction_if_needed and the task *)
(* it spawns) and RaftCore::update_snapshot_state.                         *)
(***************************************************************************)
\* The thresholds of SnapshotPolicy::LogsSinceLast the nodes are configured
\* with: one within reach of the logs of the model, and one out of their reach.
Threshold == 1
DefaultThreshold == 5000
MaxBuilds == 2

SnapshotComplete(index) == [kind |-> "SnapshotComplete", index |-> index]
SnapshotFailed == [kind |-> "SnapshotFailed", index |-> 0]

\* update_snapshot_state that drops the snapshot state whatever it is.
update_snapshot_state_drops_all(c, update) ==
    LET c1 == IF update.kind = "SnapshotComplete"
              THEN [c EXCEPT !.snapshot_index = update.index]
              ELSE c
    IN  [c1 EXCEPT !.snapshot_state = None]

update_snapshot_state(c, update) ==
    LET c1 == IF update.kind = "SnapshotComplete"
              THEN [c EXCEPT !.snapshot_index = update.index]
              ELSE c
    IN  IF IsStreaming(c1) THEN c1 ELSE [c1 EXCEPT !.snapshot_state = None]

through_index(c) == Min(c.commit_index, c.last_log_index)

\* Whether trigger_log_compaction_if_needed gets past its three early returns.
\* The subtraction is the code's u64 subtraction with the wrap-around of a
\* release build.
\* TLC's integers are 32 bits wide: the modulus 2^64 of u64 is stood for by
\* 2^30, which is as far above every index of the model.
U64 == 2 ^ 30
SubU64(a, b) == (a - b + U64) % U64

compaction_needed(c) ==
    /\ ~IsSome(c.snapshot_state)
    /\ through_index(c) /= 0
    /\ ~(SubU64(through_index(c), c.snapshot_index) < c.config.snapshot_policy)

\* The core after trigger_log_compaction_if_needed; handle names the task spawned.
trigger_log_compaction_if_needed(c, handle) ==
    IF compaction_needed(c)
    THEN [c EXCEPT !.snapshot_state = Some(Snapshotting(through_index(c), handle))]
    ELSE c

\* The compaction task a call spawns, if any, added to the tasks bs.
Build(through) == [through |-> through, status |-> "running"]

spawn_build(c, bs) ==
    IF compaction_needed(c) THEN Append(bs, Build(through_index(c))) ELSE bs

\* mpsc::Sender::try_send on the capacity-1 channel: a full channel drops the message.
try_send(ch, msg) == IF Len(ch) < 1 THEN Append(ch, msg) ELSE ch

(***************************************************************************)
(* The follower's apply worker: ReplicationTask::spawn and                 *)
(* ReplicationEventListener.                                               *)
(***************************************************************************)
Terminate == [kind |-> "Terminate", commit_index |-> 0, last_log_index |-> 0,
              last_applied |-> 0]

Commited(commit_index, last_log_index, last_applied) ==
    [kind |-> "Commited", commit_index |-> commit_index,
     last_log_index |-> last_log_index, last_applied |-> last_applied]

ReportMetrics == [kind |-> "ReportMetrics", index |-> 0]
Applied(index) == [kind |-> "Applied", index |-> index]
Error == [kind |-> "Error", index |-> 0]

\* No ReplicationTask: the node is not in the follower driver.
NoTask ==
    [running |-> FALSE, last_applied |-> 0, last_log_index |-> 0, commit_index |-> 0,
     event_rx |-> <<>>, replication_rx |-> <<>>]

\* ReplicationTask::spawn.
SpawnTask ==
    [running |-> TRUE, last_applied |-> 0, last_log_index |-> 0, commit_index |-> 0,
     event_rx |-> <<>>, replication_rx |-> <<>>]

\* The three max-merges at the head of ReplicationEventListener::main.
merge_commited(w, ev) ==
    [w EXCEPT !.commit_index = Max(@, ev.commit_index),
              !.last_log_index = Max(@, ev.last_log_index),
              !.last_applied = Max(@, ev.last_applied)]

\* The entries replicate_to_state_machine_if_needed reads.
entries_to_apply(w, st) ==
    IF w.commit_index > w.last_applied
    THEN get_log_entries(st, w.last_applied + 1,
                         Min(w.commit_index, w.last_log_index) + 1)
    ELSE <<>>

RECURSIVE data_entries(_)
data_entries(entries) ==
    IF entries = <<>> THEN <<>>
    ELSE (IF Head(entries).entry.kind = "Normal"
          THEN <<(<<Head(entries).index, Head(entries).entry.data>>)>>
          ELSE <<>>) \o data_entries(Tail(entries))

\* last_applied moved to the last entry delivered instead of the last one read.
last_applied_after_delivered(w, entries) ==
    IF data_entries(entries) = <<>> THEN w.last_applied
    ELSE data_entries(entries)[Len(data_entries(entries))][1]

\* The worker's last_applied once the entries are read.
last_applied_after(w, entries) ==
    IF entries = <<>> THEN w.last_applied ELSE entries[Len(entries)].index

\* RaftStorage::replicate_to_state_machine.
replicate_to_state_machine(st, data) ==
    IF data = <<>> THEN st
    ELSE [st EXCEPT !.sm = @ \o data, !.last_applied_log = data[Len(data)][1]]

\* ReplicationEventListener::main on a Commited event; outcome is "ok",
\* "read_error" (get_log_entries fails) or "apply_error"
\* (replicate_to_state_machine fails).
worker_on_commited(w0, ev, st, outcome) ==
    LET w == merge_commited(w0, ev)
        entries == entries_to_apply(w, st)
        w1 == [w EXCEPT !.last_applied = last_applied_after(w, entries)]
    IN  CASE outcome = "read_error" ->
                 [w EXCEPT !.running = FALSE,
                           !.replication_rx = Append(@, Error)]
          [] outcome = "apply_error" ->
                 [w1 EXCEPT !.running = FALSE,
                            !.replication_rx = Append(@, Error)]
          [] OTHER ->
                 IF entries /= <<>>
                 THEN [w1 EXCEPT !.replication_rx =
                                     @ \o <<ReportMetrics, Applied(w1.last_applied)>>]
                 ELSE w1

\* The outcomes the storage can produce for this event.
WorkerOutcomes(w0, ev, st) ==
    LET w == merge_commited(w0, ev)
    IN  {"ok"}
        \cup (IF w.commit_index > w.last_applied THEN {"read_error"} ELSE {})
        \cup (IF data_entries(entries_to_apply(w, st)) /= <<>>
              THEN {"apply_error"} ELSE {})

(***************************************************************************)
(* CandidateState.                                                         *)
(***************************************************************************)
\* CandidateState::new.
NewCandidate ==
    [votes_granted_old |-> 0, votes_needed_old |-> 0,
     votes_granted_new |-> 0, votes_needed_new |-> 0]

\* CandidateState::run, "Setup initial state per term".
setup_votes(cs, m) ==
    LET cs1 == [cs EXCEPT !.votes_granted_old = 1,
                          !.votes_needed_old = (Cardinality(m.members) \div 2) + 1]
    IN  IF IsSome(m.members_after_consensus)
        THEN [cs1 EXCEPT !.votes_granted_new = 1,
                         !.votes_needed_new =
                             (Cardinality(Unwrap(m.members_after_consensus)) \div 2) + 1]
        ELSE cs1

\* Setup new term without the increment: the candidate votes for itself in
\* the term it is in.
setup_new_term_same_term(c) ==
    update_current_leader(
        [update_next_election_timeout(c) EXCEPT !.voted_for = Some(c.id)],
        Unknown)

\* Setup new term with the term of the last log entry taken for the new term.
setup_new_term_from_log(c) ==
    update_current_leader(
        [update_next_election_timeout(c) EXCEPT !.current_term = c.last_log_term,
                                                !.voted_for = Some(c.id)],
        Unknown)

\* Setup new term that leaves the leader the node knew of in place.
setup_new_term_keeps_leader(c) ==
    [update_next_election_timeout(c) EXCEPT !.current_term = @ + 1,
                                            !.voted_for = Some(c.id)]

\* CandidateState::run, "Setup new term".
setup_new_term(c) ==
    update_current_leader(
        [update_next_election_timeout(c) EXCEPT !.current_term = @ + 1,
                                                !.voted_for = Some(c.id)],
        Unknown)

\* spawn_parallel_vote_requests (vote.rs): one RequestVote per other node of
\* the membership, old and new group alike.
vote_requests(c) ==
    {[type |-> "RequestVote", from |-> c.id, to |-> t,
      rpc |-> VoteRequest(c.current_term, c.id, c.last_log_index, c.last_log_term)] :
        t \in all_nodes(c.membership) \ {c.id}}

VoteReply(from, to, term, res) ==
    [type |-> "VoteResponse", from |-> from, to |-> to,
     rpc |-> [term |-> term, candidate_id |-> to,
              last_log_index |-> 0, last_log_term |-> 0],
     res |-> res]

\* handle_vote_response (vote.rs), the tallies.
tally(cs, m, res, target) ==
    IF ~res.vote_granted THEN cs
    ELSE [cs EXCEPT !.votes_granted_old =
                        IF target \in m.members THEN @ + 1 ELSE @,
                    !.votes_granted_new =
                        IF /\ IsSome(m.members_after_consensus)
                           /\ target \in Unwrap(m.members_after_consensus)
                        THEN @ + 1 ELSE @]

has_majorities(cs) ==
    /\ cs.votes_granted_old >= cs.votes_needed_old
    /\ cs.votes_granted_new >= cs.votes_needed_new

\* handle_vote_response (vote.rs), the core.
handle_vote_response(c, cs, res, target) ==
    IF res.term > c.current_term
    THEN set_target_state(
             update_current_leader(update_current_term(c, res.term, None), Unknown),
             "Follower")
    ELSE IF res.vote_granted /\ has_majorities(tally(cs, c.membership, res, target))
         THEN set_target_state(c, "Leader")
         ELSE c

(***************************************************************************)
(* LeaderState.                                                            *)
(***************************************************************************)
ReplicationState == [match_index |-> 0, match_term |-> 0]

\* LeaderState::new; terminated collects the targets sent RaftEvent::Terminate.
NewLeader ==
    [nodes |-> <<>>, non_voters |-> <<>>, is_stepping_down |-> FALSE,
     replicationrx |-> <<>>, terminated |-> {}]

\* Streams for the members of the old group alone.
spawn_replication_streams_old_group(l, c) ==
    [l EXCEPT !.nodes = [t \in c.membership.members \ {c.id} |-> ReplicationState]]

\* LeaderState::run, "Spawn replication streams".
spawn_replication_streams(l, c) ==
    [l EXCEPT !.nodes = [t \in all_nodes(c.membership) \ {c.id} |-> ReplicationState]]

\* LeaderState::run, "Setup state as leader".
setup_leader(c) ==
    update_current_leader([c EXCEPT !.next_election_timeout = None], ThisNode)

\* The match index the commit rule reads for member m.
MatchIndex(c, l, m) ==
    IF m = c.id THEN c.last_log_index
    ELSE IF m \in DOMAIN l.nodes THEN l.nodes[m].match_index
    ELSE 0

HasQuorum(c, l, group, i) ==
    Cardinality({m \in group : MatchIndex(c, l, m) >= i})
        >= (Cardinality(group) \div 2) + 1

\* The commit rule with the quorum of the old group alone.
Committable_old_group(c, l, log, i) ==
    /\ HasQuorum(c, l, c.membership.members, i)
    /\ TermAt(log, i) = c.current_term

\* Section 4.5, Leader, step 4: both quorums at or past i, entry i of this term.
Committable(c, l, log, i) ==
    /\ HasQuorum(c, l, c.membership.members, i)
    /\ IsSome(c.membership.members_after_consensus)
           => HasQuorum(c, l, Unwrap(c.membership.members_after_consensus), i)
    /\ TermAt(log, i) = c.current_term

new_commit_index(c, l, log) ==
    LET S == {i \in (c.commit_index + 1)..c.last_log_index : Committable(c, l, log, i)}
    IN  IF S = {} THEN c.commit_index ELSE CHOOSE i \in S : \A j \in S : j <= i

\* Section 4.4, as the leader runs it inline.
apply_core(c, st) ==
    LET w == [last_applied |-> c.last_applied, commit_index |-> c.commit_index,
              last_log_index |-> c.last_log_index]
    IN  [c EXCEPT !.last_applied = last_applied_after(w, entries_to_apply(w, st))]

apply_storage(c, st) ==
    LET w == [last_applied |-> c.last_applied, commit_index |-> c.commit_index,
              last_log_index |-> c.last_log_index]
    IN  replicate_to_state_machine(st, data_entries(entries_to_apply(w, st)))

\* The leader appends an entry and commits what its match indexes allow.
leader_append_core(c, l, st, entry) ==
    LET c1 == [c EXCEPT !.last_log_index = @ + 1, !.last_log_term = entry.term]
        c2 == [c1 EXCEPT !.commit_index = new_commit_index(c1, l, Append(st.log, entry))]
    IN  apply_core(c2, [st EXCEPT !.log = Append(@, entry)])

leader_append_storage(c, l, st, entry) ==
    LET c1 == [c EXCEPT !.last_log_index = @ + 1, !.last_log_term = entry.term]
        c2 == [c1 EXCEPT !.commit_index = new_commit_index(c1, l, Append(st.log, entry))]
    IN  apply_storage(c2, [st EXCEPT !.log = Append(@, entry)])

\* handle_replica_event (replication.rs).
UpdateMatchIndex(target, index, term) ==
    [kind |-> "UpdateMatchIndex", target |-> target, index |-> index, term |-> term]

RevertToFollower(target, term) ==
    [kind |-> "RevertToFollower", target |-> target, index |-> 0, term |-> term]

update_match_index(l, ev) ==
    IF ev.kind = "UpdateMatchIndex" /\ ev.target \in DOMAIN l.nodes
    THEN [l EXCEPT !.nodes[ev.target] =
              [match_index |-> Max(@.match_index, ev.index),
               match_term |-> IF ev.index >= @.match_index THEN ev.term ELSE @.match_term]]
    ELSE l

handle_replica_event_core(c, l, st, ev) ==
    CASE ev.kind = "UpdateMatchIndex" ->
             apply_core([c EXCEPT !.commit_index =
                             new_commit_index(c, update_match_index(l, ev), st.log)], st)
      [] ev.kind = "RevertToFollower" /\ ev.term > c.current_term ->
             set_target_state(
                 update_current_leader(update_current_term(c, ev.term, None), Unknown),
                 "Follower")
      [] OTHER -> c

handle_replica_event_storage(c, l, st, ev) ==
    LET c1 == handle_replica_event_core(c, l, st, ev)
    IN  save_hard_state(c1,
            IF ev.kind = "UpdateMatchIndex"
            THEN apply_storage([c EXCEPT !.commit_index = c1.commit_index], st)
            ELSE st)

(***************************************************************************)
(* The initial states: every node's storage holds what an earlier run left *)
(* there, and the core task of each running node is about to enter         *)
(* RaftCore::main.                                                         *)
(***************************************************************************)
Voters == Nodes \ {NumNodes}

InitLogs == {<<>>, <<Normal(1, 1)>>}

InitMemberships(n) ==
    {new_initial(n),
     Membership(Voters, None),
     Membership(Voters \ {n}, None),
     Membership(Voters, Some({NumNodes}))}

\* What an earlier run that applied the first a entries left in the state machine.
AppliedPrefix(log, a) ==
    data_entries([k \in 1..a |-> [index |-> k, entry |-> log[k]]])

RecoveredStorage(n) ==
    UNION {{Storage(HardState(LastTerm(log), None), log, cfg, a, None,
                    AppliedPrefix(log, a)) :
                cfg \in InitMemberships(n), a \in {0, Len(log)}} :
           log \in InitLogs}

InitNodes(running, config, injected) ==
    /\ core = [n \in Nodes |-> SpawnCore(n, config)]
    /\ needs_shutdown = [n \in Nodes |-> FALSE]
    /\ pc = [n \in Nodes |-> IF n \in running THEN "init" ELSE "off"]
    /\ result = [n \in Nodes |-> "Running"]
    /\ cand = [n \in Nodes |-> NewCandidate]
    /\ lead = [n \in Nodes |-> NewLeader]
    /\ task = [n \in Nodes |-> NoTask]
    /\ builds = [n \in Nodes |-> <<>>]
    /\ rx_compaction = [n \in Nodes |-> <<>>]
    /\ metrics = [n \in Nodes |-> None]
    /\ net = {}
    /\ faults = injected
    /\ observed = [n \in Nodes |-> FALSE]

\* The node the single-node specification runs; the other nodes are its
\* environment.
Self == CHOOSE n \in Nodes : \A m \in Nodes : n <= m

\* Only Self has a storage that matters: st.
InitStorage(st) ==
    storage = [n \in Nodes |->
                  IF n = Self THEN st
                  ELSE Storage(HardState(0, None), <<>>, new_initial(n), 0, None, <<>>)]

Init ==
    /\ InitNodes({Self}, LogsSinceLast(DefaultThreshold), 0)
    /\ \E st \in RecoveredStorage(Self) : InitStorage(st)

(***************************************************************************)
(* RaftCore::main.                                                         *)
(***************************************************************************)
\* main with commit_index restored to what the storage has applied.
main_init_restored_commit(c, st) ==
    LET state == get_initial_state(st)
    IN  [c EXCEPT !.last_log_index = state.last_log_index,
                  !.last_log_term = state.last_log_term,
                  !.current_term = state.hard_state.current_term,
                  !.voted_for = state.hard_state.voted_for,
                  !.membership = state.membership,
                  !.last_applied = state.last_applied_log,
                  !.commit_index = state.last_applied_log,
                  !.target_state = "Follower"]

\* The core once main has loaded the state recovered from storage.
main_init(c, st) ==
    LET state == get_initial_state(st)
        c1 == [c EXCEPT !.last_log_index = state.last_log_index,
                        !.last_log_term = state.last_log_term,
                        !.current_term = state.hard_state.current_term,
                        !.voted_for = state.hard_state.voted_for,
                        !.membership = state.membership,
                        !.last_applied = state.last_applied_log,
                        !.commit_index = 0]
        c2 == IF IsSome(st.snapshot)
              THEN [c1 EXCEPT !.snapshot_index = Unwrap(st.snapshot)]
              ELSE c1
        is_only_configured_member ==
            /\ Cardinality(c2.membership.members) = 1
            /\ contains(c2.membership, c2.id)
    IN  IF is_only_configured_member /\ c2.last_log_index /= 0
        THEN [c2 EXCEPT !.target_state = "Leader"]
        ELSE IF ~is_only_configured_member
             THEN [c2 EXCEPT !.target_state = "Follower"]
             ELSE [c2 EXCEPT !.target_state = "NonVoter"]

\* A fatal storage error may still be injected.
MayFail == faults > 0

\* The core when get_current_snapshot fails: the initial state is loaded.
main_init_loaded(c, st) ==
    LET state == get_initial_state(st)
    IN  [c EXCEPT !.last_log_index = state.last_log_index,
                  !.last_log_term = state.last_log_term,
                  !.current_term = state.hard_state.current_term,
                  !.voted_for = state.hard_state.voted_for,
                  !.membership = state.membership,
                  !.last_applied = state.last_applied_log,
                  !.commit_index = 0]

\* main up to its loop, or up to the error of get_initial_state or of
\* get_current_snapshot, which main returns.
MainInit(n) ==
    /\ pc[n] = "init"
    /\ \/ /\ core' = [core EXCEPT ![n] = main_init(core[n], storage[n])]
          /\ pc' = [pc EXCEPT ![n] = "main"]
          /\ UNCHANGED <<result, faults>>
       \/ /\ MayFail
          /\ faults' = faults - 1
          /\ \E c \in {core[n], main_init_loaded(core[n], storage[n])} :
                core' = [core EXCEPT ![n] = map_fatal_storage_error(c)]
          /\ pc' = [pc EXCEPT ![n] = "done"]
          /\ result' = [result EXCEPT ![n] = "Err"]
    /\ UNCHANGED <<needs_shutdown, storage, cand, lead, task, builds,
                   rx_compaction, metrics, net, observed>>

\* The role a driver position belongs to.
RoleOf(p) ==
    CASE p = "leader" -> "Leader"
      [] p = "candidate" -> "Candidate"
      [] p \in {"follower", "follower_join"} -> "Follower"
      [] p = "nonvoter" -> "NonVoter"
      [] OTHER -> "None"

\* The test at the head of each driver's loop.
Continue(n) ==
    /\ core[n].target_state = RoleOf(pc[n])
    /\ ~needs_shutdown[n]

\* The test is left by its second operand: the flag is read, and is set.
ObservesFlag(n) ==
    /\ core[n].target_state = RoleOf(pc[n])
    /\ needs_shutdown[n]

\* The driver of n is at its select.
InLoop(n) ==
    /\ pc[n] \in {"leader", "candidate", "follower", "nonvoter"}
    /\ Continue(n)

\* The follower and the candidate draw the election deadline before they select.
AtSelect(n) ==
    IF pc[n] \in {"follower", "candidate"}
    THEN get_next_election_timeout(core[n])
    ELSE core[n]

MainShutdown(n) ==
    /\ pc[n] = "main"
    /\ core[n].target_state = "Shutdown"
    /\ pc' = [pc EXCEPT ![n] = "done"]
    /\ result' = [result EXCEPT ![n] = "Ok"]
    /\ UNCHANGED <<core, needs_shutdown, storage, cand, lead, task, builds,
                   rx_compaction, metrics, net, faults, observed>>

\* Every node runs: the specification is of a cluster, whose logs are given
\* one more entry of room than the log of the node that runs among peers
\* that are not modelled.
Cluster == \A n \in Nodes : pc[n] /= "off"

LogLimit == IF Cluster THEN MaxLog + 1 ELSE MaxLog

(***************************************************************************)
(* FollowerState::run.                                                     *)
(***************************************************************************)
MainFollower(n) ==
    /\ pc[n] = "main"
    /\ core[n].target_state = "Follower"
    /\ task' = [task EXCEPT ![n] = SpawnTask]
    /\ metrics' = [metrics EXCEPT ![n] = report_metrics(core[n])]
    /\ pc' = [pc EXCEPT ![n] = "follower"]
    /\ UNCHANGED <<core, needs_shutdown, storage, result, cand, lead, builds,
                   rx_compaction, net, faults, observed>>

\* The loop's test fails: the driver sends Terminate to its worker.
FollowerExit(n) ==
    /\ pc[n] = "follower"
    /\ ~Continue(n)
    /\ task' = [task EXCEPT ![n].event_rx = Append(@, Terminate)]
    /\ observed' = [observed EXCEPT ![n] = @ \/ ObservesFlag(n)]
    /\ pc' = [pc EXCEPT ![n] = "follower_join"]
    /\ UNCHANGED <<core, needs_shutdown, storage, result, cand, lead, builds,
                   rx_compaction, metrics, net, faults>>

\* The worker has returned: its last_applied becomes the core's.
FollowerJoin(n) ==
    /\ pc[n] = "follower_join"
    /\ ~task[n].running
    /\ core' = [core EXCEPT ![n].last_applied = task[n].last_applied]
    /\ task' = [task EXCEPT ![n] = NoTask]
    /\ pc' = [pc EXCEPT ![n] = "main"]
    /\ UNCHANGED <<needs_shutdown, storage, result, cand, lead, builds,
                   rx_compaction, metrics, net, faults, observed>>

\* The election deadline passes.
FollowerTimeout(n) ==
    /\ pc[n] = "follower"
    /\ Continue(n)
    /\ core' = [core EXCEPT ![n] = set_target_state(AtSelect(n), "Candidate")]
    /\ UNCHANGED <<needs_shutdown, storage, pc, result, cand, lead, task, builds,
                   rx_compaction, metrics, net, faults, observed>>

\* A message of the worker arrives on replication_rx.
FollowerNotification(n) ==
    /\ pc[n] = "follower"
    /\ Continue(n)
    /\ task[n].replication_rx /= <<>>
    /\ LET ev == Head(task[n].replication_rx)
           c == AtSelect(n)
           c1 == [c EXCEPT !.last_applied = ev.index]
       IN  /\ task' = [task EXCEPT ![n].replication_rx = Tail(@)]
           /\ ev.kind = "Applied" /\ compaction_needed(c1) => Len(builds[n]) < MaxBuilds
           /\ core' = [core EXCEPT ![n] =
                          IF ev.kind = "Applied"
                          THEN trigger_log_compaction_if_needed(c1, Len(builds[n]) + 1)
                          ELSE c]
           /\ builds' = [builds EXCEPT ![n] =
                            IF ev.kind = "Applied" THEN spawn_build(c1, @) ELSE @]
           /\ needs_shutdown' = [needs_shutdown EXCEPT ![n] =
                                    IF ev.kind = "Error" THEN TRUE ELSE @]
           /\ metrics' = [metrics EXCEPT ![n] =
                             IF ev.kind = "ReportMetrics" THEN report_metrics(c) ELSE @]
    /\ UNCHANGED <<storage, pc, result, cand, lead, rx_compaction, net, faults, observed>>

(***************************************************************************)
(* ReplicationEventListener::main.                                         *)
(***************************************************************************)
WorkerRecv(n) ==
    /\ task[n].running
    /\ task[n].event_rx /= <<>>
    /\ Len(task[n].replication_rx) < MaxQueue
    /\ LET ev == Head(task[n].event_rx)
           w0 == [task[n] EXCEPT !.event_rx = Tail(@)]
       IN  IF ev.kind = "Terminate"
           THEN /\ task' = [task EXCEPT ![n] = [w0 EXCEPT !.running = FALSE]]
                /\ UNCHANGED <<storage, faults>>
           ELSE \E outcome \in WorkerOutcomes(w0, ev, storage[n]) :
                   /\ outcome /= "ok" => MayFail
                   /\ faults' = IF outcome = "ok" THEN faults ELSE faults - 1
                   /\ task' = [task EXCEPT ![n] =
                                  worker_on_commited(w0, ev, storage[n], outcome)]
                   /\ storage' = [storage EXCEPT ![n] =
                          IF outcome = "ok"
                          THEN replicate_to_state_machine(@,
                                   data_entries(entries_to_apply(merge_commited(w0, ev), @)))
                          ELSE @]
    /\ UNCHANGED <<core, needs_shutdown, pc, result, cand, lead, builds,
                   rx_compaction, metrics, net, observed>>

(***************************************************************************)
(* CandidateState::run.                                                    *)
(***************************************************************************)
\* Responses to the vote requests of an abandoned election are dropped with
\* the channel they were sent on, and so is what a peer that is not modelled
\* would answer to a request still on its way.
DropResponses(msgs, n) ==
    {m \in msgs : /\ ~(m.type = "VoteResponse" /\ m.to = n)
                  /\ ~(m.type = "RequestVote" /\ m.from = n /\ pc[m.to] = "off")}

\* One pass of the outer loop up to the inner loop: a new term and its vote
\* requests, or the fatal error of save_hard_state.
StartElection(n, c, ok) ==
    LET c1 == setup_new_term(c)
    IN  /\ c.current_term < MaxTerm
        /\ cand' = [cand EXCEPT ![n] = setup_votes(@, c.membership)]
        /\ IF ok
           THEN /\ core' = [core EXCEPT ![n] = c1]
                /\ storage' = [storage EXCEPT ![n] = save_hard_state(c1, @)]
                /\ metrics' = [metrics EXCEPT ![n] = report_metrics(c1)]
                /\ net' = DropResponses(net, n) \cup vote_requests(c1)
                /\ pc' = [pc EXCEPT ![n] = "candidate"]
                /\ UNCHANGED <<result, faults, observed>>
           ELSE /\ MayFail
                /\ faults' = faults - 1
                /\ core' = [core EXCEPT ![n] = map_fatal_storage_error(c1)]
                /\ net' = DropResponses(net, n)
                /\ pc' = [pc EXCEPT ![n] = "done"]
                /\ result' = [result EXCEPT ![n] = "Err"]
                /\ UNCHANGED <<storage, metrics>>

MainCandidate(n) ==
    /\ pc[n] = "main"
    /\ core[n].target_state = "Candidate"
    /\ \E ok \in BOOLEAN : StartElection(n, core[n], ok)
    /\ UNCHANGED <<needs_shutdown, lead, task, builds, rx_compaction, observed>>

\* The election deadline passes in the inner loop: back to the outer loop.
CandidateTimeout(n) ==
    /\ pc[n] = "candidate"
    /\ Continue(n)
    /\ \E ok \in BOOLEAN : StartElection(n, AtSelect(n), ok)
    /\ UNCHANGED <<needs_shutdown, lead, task, builds, rx_compaction, observed>>

CandidateExit(n) ==
    /\ pc[n] = "candidate"
    /\ ~Continue(n)
    /\ net' = DropResponses(net, n)
    /\ cand' = [cand EXCEPT ![n] = NewCandidate]
    /\ observed' = [observed EXCEPT ![n] = @ \/ ObservesFlag(n)]
    /\ pc' = [pc EXCEPT ![n] = "main"]
    /\ UNCHANGED <<core, needs_shutdown, storage, result, lead, task, builds,
                   rx_compaction, metrics, faults>>

CandidateVoteResponse(n) ==
    /\ pc[n] = "candidate"
    /\ Continue(n)
    /\ \E m \in net :
          /\ m.type = "VoteResponse" /\ m.to = n
          /\ LET c == AtSelect(n)
                 c1 == handle_vote_response(c, cand[n], m.res, m.from)
             IN  /\ core' = [core EXCEPT ![n] = c1]
                 /\ cand' = [cand EXCEPT ![n] =
                                IF m.res.term > c.current_term THEN @
                                ELSE tally(@, c.membership, m.res, m.from)]
                 /\ storage' = [storage EXCEPT ![n] = save_hard_state(c1, @)]
                 /\ net' = net \ {m}
    /\ UNCHANGED <<needs_shutdown, pc, result, lead, task, builds, rx_compaction,
                   metrics, faults, observed>>

(***************************************************************************)
(* LeaderState::run.                                                       *)
(***************************************************************************)
\* Entry to the leader driver up to the loop: the streams are spawned, the
\* leader state is set up and reported, the initial entry is committed; or
\* commit_initial_leader_entry fails and run returns its error.
MainLeader(n) ==
    /\ pc[n] = "main"
    /\ core[n].target_state = "Leader"
    /\ Len(storage[n].log) < LogLimit
    /\ LET l == spawn_replication_streams(NewLeader, core[n])
           c == setup_leader(core[n])
           entry == Blank(c.current_term)
       IN  /\ lead' = [lead EXCEPT ![n] = l]
           /\ metrics' = [metrics EXCEPT ![n] = report_metrics(c)]
           /\ \/ /\ core' = [core EXCEPT ![n] = leader_append_core(c, l, storage[n], entry)]
                 /\ storage' = [storage EXCEPT ![n] = leader_append_storage(c, l, @, entry)]
                 /\ pc' = [pc EXCEPT ![n] = "leader"]
                 /\ UNCHANGED <<result, faults, observed>>
              \/ /\ MayFail
                 /\ faults' = faults - 1
                 /\ core' = [core EXCEPT ![n] = map_fatal_storage_error(c)]
                 /\ pc' = [pc EXCEPT ![n] = "done"]
                 /\ result' = [result EXCEPT ![n] = "Err"]
                 /\ UNCHANGED storage
    /\ UNCHANGED <<needs_shutdown, cand, task, builds, rx_compaction, net, observed>>

\* The loop's test fails: every replication stream is sent Terminate.
LeaderExit(n) ==
    /\ pc[n] = "leader"
    /\ ~Continue(n)
    /\ lead' = [lead EXCEPT ![n] =
                    [NewLeader EXCEPT !.terminated =
                         DOMAIN lead[n].nodes \cup DOMAIN lead[n].non_voters]]
    /\ observed' = [observed EXCEPT ![n] = @ \/ ObservesFlag(n)]
    /\ pc' = [pc EXCEPT ![n] = "main"]
    /\ UNCHANGED <<core, needs_shutdown, storage, result, cand, task, builds,
                   rx_compaction, metrics, net, faults>>

\* A client write is appended to the leader's log.
LeaderClientWrite(n) ==
    /\ pc[n] = "leader"
    /\ Continue(n)
    /\ Len(storage[n].log) < LogLimit
    /\ LET entry == Normal(core[n].current_term, n)
       IN  /\ core' = [core EXCEPT ![n] =
                          leader_append_core(@, lead[n], storage[n], entry)]
           /\ storage' = [storage EXCEPT ![n] =
                             leader_append_storage(core[n], lead[n], @, entry)]
    /\ UNCHANGED <<needs_shutdown, pc, result, cand, lead, task, builds,
                   rx_compaction, metrics, net, faults, observed>>

\* An event of a replication stream arrives on replicationrx.
LeaderReplicaEvent(n) ==
    /\ pc[n] = "leader"
    /\ Continue(n)
    /\ lead[n].replicationrx /= <<>>
    /\ LET ev == Head(lead[n].replicationrx)
       IN  /\ core' = [core EXCEPT ![n] =
                          handle_replica_event_core(@, lead[n], storage[n], ev)]
           /\ storage' = [storage EXCEPT ![n] =
                             handle_replica_event_storage(core[n], lead[n], @, ev)]
           /\ lead' = [lead EXCEPT ![n] =
                          [update_match_index(@, ev) EXCEPT !.replicationrx = Tail(@)]]
    /\ UNCHANGED <<needs_shutdown, pc, result, cand, task, builds,
                   rx_compaction, metrics, net, faults, observed>>

(***************************************************************************)
(* NonVoterState::run.                                                     *)
(***************************************************************************)
MainNonVoter(n) ==
    /\ pc[n] = "main"
    /\ core[n].target_state = "NonVoter"
    /\ metrics' = [metrics EXCEPT ![n] = report_metrics(core[n])]
    /\ pc' = [pc EXCEPT ![n] = "nonvoter"]
    /\ UNCHANGED <<core, needs_shutdown, storage, result, cand, lead, task, builds,
                   rx_compaction, net, faults, observed>>

NonVoterExit(n) ==
    /\ pc[n] = "nonvoter"
    /\ ~Continue(n)
    /\ observed' = [observed EXCEPT ![n] = @ \/ ObservesFlag(n)]
    /\ pc' = [pc EXCEPT ![n] = "main"]
    /\ UNCHANGED <<core, needs_shutdown, storage, result, cand, lead, task, builds,
                   rx_compaction, metrics, net, faults>>

\* handle_init_with_config (admin.rs): accepted on an empty log; the
\* membership is the given one, a lone member takes the lead of a new term.
handle_init_with_config(c, members) ==
    LET c1 == update_membership(c, Membership(members, None))
    IN  IF c.last_log_index /= 0 THEN c
        ELSE IF members = {c.id}
             THEN set_target_state(
                      [c1 EXCEPT !.current_term = @ + 1, !.voted_for = Some(c.id)],
                      "Leader")
             ELSE set_target_state(c1, "Follower")

NonVoterInitialize(n) ==
    /\ pc[n] = "nonvoter"
    /\ Continue(n)
    /\ core[n].current_term < MaxTerm
    /\ \E members \in {{n}, Voters \cup {n}} :
          LET c == handle_init_with_config(core[n], members)
          IN  /\ core' = [core EXCEPT ![n] = c]
              /\ storage' = [storage EXCEPT ![n] =
                                save_hard_state(c, [@ EXCEPT !.membership = c.membership])]
    /\ UNCHANGED <<needs_shutdown, pc, result, cand, lead, task, builds,
                   rx_compaction, metrics, net, faults, observed>>

(***************************************************************************)
(* The three RPCs, as every role driver serves them.                       *)
(***************************************************************************)
\* The caller says what the response does to the network.
OnAppendEntries(n, rpc) ==
    /\ InLoop(n)
    /\ pc[n] = "follower" => Len(task[n].event_rx) < MaxQueue
    /\ LET h == handle_append_entries_request(AtSelect(n), storage[n], rpc)
       IN  /\ core' = [core EXCEPT ![n] = h.core]
           /\ storage' = [storage EXCEPT ![n] = h.storage]
           /\ task' = [task EXCEPT ![n].event_rx =
                          IF pc[n] = "follower"
                          THEN Append(@, Commited(h.core.commit_index,
                                                  h.core.last_log_index,
                                                  h.core.last_applied))
                          ELSE @]
    /\ UNCHANGED <<needs_shutdown, pc, result, cand, builds,
                   rx_compaction, metrics, faults, observed>>

OnRequestVote(n, rpc) ==
    /\ InLoop(n)
    /\ LET h == handle_vote_request(AtSelect(n), storage[n], rpc)
       IN  /\ core' = [core EXCEPT ![n] = h.core]
           /\ storage' = [storage EXCEPT ![n] = h.storage]
    /\ UNCHANGED <<needs_shutdown, pc, result, cand, lead, task, builds,
                   rx_compaction, metrics, faults, observed>>

\* save_hard_state fails in the vote handler: the error is the response, the
\* core is left as the handler had it, with Shutdown as its target.
OnRequestVoteFailed(n, rpc) ==
    /\ InLoop(n)
    /\ MayFail
    /\ LET h == handle_vote_request(AtSelect(n), storage[n], rpc)
       IN  /\ h.storage.hard_state /= storage[n].hard_state
           /\ core' = [core EXCEPT ![n] = map_fatal_storage_error(h.core)]
    /\ faults' = faults - 1
    /\ UNCHANGED <<needs_shutdown, storage, pc, result, cand, lead, task, builds,
                   rx_compaction, metrics, observed>>

\* The build in progress is aborted when the handler opens or drives a stream.
abort_build(c, rpc, bs) ==
    IF AbortsBuild(c, rpc) /\ bs[Unwrap(c.snapshot_state).handle].status = "running"
    THEN [bs EXCEPT ![Unwrap(c.snapshot_state).handle].status = "aborted"]
    ELSE bs

OnInstallSnapshot(n, rpc) ==
    /\ InLoop(n)
    /\ LET h == handle_install_snapshot_request(AtSelect(n), storage[n], rpc)
       IN  /\ core' = [core EXCEPT ![n] = h.core]
           /\ storage' = [storage EXCEPT ![n] = h.storage]
           /\ builds' = [builds EXCEPT ![n] = abort_build(core[n], rpc, @)]
    /\ UNCHANGED <<needs_shutdown, pc, result, cand, lead, task,
                   rx_compaction, metrics, net, faults, observed>>

(***************************************************************************)
(* The requests of the application that a driver answers with an error.    *)
(***************************************************************************)
ClientError(kind, leader) == [kind |-> kind, leader |-> leader]

forward_no_hint(c) == ClientError("ForwardToLeader", None)

reject_config_change_no_hint(c) == ClientError("NodeNotLeader", None)

reject_init_as_not_leader(c) == ClientError("NodeNotLeader", c.current_leader)

reject_init_with_config(c) == ClientError("NotAllowed", None)

reject_config_change_not_leader(c) == ClientError("NodeNotLeader", c.current_leader)

forward_client_write_request(c) == ClientError("ForwardToLeader", c.current_leader)

forward_client_read_request(c) == ClientError("ForwardToLeader", c.current_leader)

\* What the sender of a request finds on its oneshot channel; the application
\* is address 0.
Reply(n, request, err) ==
    [type |-> "Reply", from |-> n, to |-> 0, request |-> request, error |-> err]

\* The driver of n takes a request at its select and answers err; the
\* application has read the answer to the request before.
ApiRequest(n, request, err) ==
    /\ InLoop(n)
    /\ core' = [core EXCEPT ![n] = AtSelect(n)]
    /\ net' = {m \in net : m.type /= "Reply"} \cup {Reply(n, request, err)}
    /\ UNCHANGED <<needs_shutdown, storage, pc, result, cand, lead, task, builds,
                   rx_compaction, metrics, faults, observed>>

NonLeaderClientRequest(n) ==
    /\ pc[n] \in {"nonvoter", "follower", "candidate"}
    /\ \/ ApiRequest(n, "ClientRead", forward_client_read_request(AtSelect(n)))
       \/ ApiRequest(n, "ClientWrite", forward_client_write_request(AtSelect(n)))

NonLeaderConfigChange(n) ==
    /\ pc[n] \in {"nonvoter", "follower", "candidate"}
    /\ \E request \in {"AddNonVoter", "ChangeMembership"} :
          ApiRequest(n, request, reject_config_change_not_leader(AtSelect(n)))

InitializeRejected(n) ==
    /\ pc[n] \in {"follower", "candidate", "leader"}
    /\ ApiRequest(n, "Initialize", reject_init_with_config(AtSelect(n)))

(***************************************************************************)
(* The compaction task and the channel it reports on.                      *)
(***************************************************************************)
\* A role driver takes an update from rx_compaction.
RecvCompaction(n) ==
    /\ InLoop(n)
    /\ rx_compaction[n] /= <<>>
    /\ core' = [core EXCEPT ![n] = update_snapshot_state(AtSelect(n), Head(rx_compaction[n]))]
    /\ rx_compaction' = [rx_compaction EXCEPT ![n] = Tail(@)]
    /\ UNCHANGED <<needs_shutdown, storage, pc, result, cand, lead, task, builds,
                   metrics, net, faults, observed>>

\* The spawned task ends: do_log_compaction succeeded, failed, or was aborted.
BuildFinish(n) ==
    \E h \in DOMAIN builds[n] :
       /\ builds[n][h].status /= "done"
       /\ builds' = [builds EXCEPT ![n][h].status = "done"]
       /\ \/ /\ builds[n][h].status = "running"
             /\ storage' = [storage EXCEPT ![n].snapshot = Some(builds[n][h].through)]
             /\ rx_compaction' = [rx_compaction EXCEPT ![n] =
                                     try_send(@, SnapshotComplete(builds[n][h].through))]
             /\ UNCHANGED faults
          \/ /\ builds[n][h].status = "running" => MayFail
             /\ faults' = IF builds[n][h].status = "running" THEN faults - 1 ELSE faults
             /\ rx_compaction' = [rx_compaction EXCEPT ![n] = try_send(@, SnapshotFailed)]
             /\ UNCHANGED storage
       /\ UNCHANGED <<core, needs_shutdown, pc, result, cand, lead, task,
                      metrics, net, observed>>

(***************************************************************************)
(* The environment of a node: the application and the other nodes.         *)
(***************************************************************************)
\* The application asks for shutdown: the flag shared with the Raft handle is set.
Shutdown(n) ==
    /\ pc[n] \notin {"off", "done"}
    /\ ~needs_shutdown[n]
    /\ needs_shutdown' = [needs_shutdown EXCEPT ![n] = TRUE]
    /\ UNCHANGED <<core, storage, pc, result, cand, lead, task, builds,
                   rx_compaction, metrics, net, faults, observed>>

\* The terms a peer that is not modelled may speak in.
EnvTerms(n) ==
    {t \in 1..MaxTerm : t >= core[n].current_term - 1 /\ t <= core[n].current_term + 1}

\* The peer that leads term t, if n does not.
EnvLeader(n, t) ==
    CHOOSE p \in Nodes \ {n} :
        Cardinality({q \in Nodes \ {n} : q < p}) = t % (NumNodes - 1)

\* What is committed on n for good: no correct leader asks n to overwrite it.
CommittedPrefix(n) == Max(core[n].commit_index, storage[n].last_applied_log)

\* A peer answers one of n's vote requests.
EnvVote(n) ==
    \E m \in net :
       /\ m.type = "RequestVote" /\ m.from = n /\ pc[m.to] = "off"
       /\ \E res \in {VoteResponse(m.rpc.term, TRUE), VoteResponse(m.rpc.term, FALSE),
                      VoteResponse(Min(m.rpc.term + 1, MaxTerm), FALSE)} :
             net' = (net \ {m}) \cup
                    (IF pc[n] = "candidate" /\ core[n].current_term = m.rpc.term
                     THEN {VoteReply(m.to, n, m.rpc.term, res)} ELSE {})
       /\ UNCHANGED <<core, needs_shutdown, storage, pc, result, cand, lead, task,
                      builds, rx_compaction, metrics, faults, observed>>

\* A replication stream of leader n reports what its target acknowledged.
EnvReplicate(n) ==
    /\ pc[n] = "leader"
    /\ Len(lead[n].replicationrx) < MaxQueue
    /\ \E t \in DOMAIN lead[n].nodes :
          /\ pc[t] = "off"
          /\ \E ev \in {UpdateMatchIndex(t, core[n].last_log_index, core[n].last_log_term),
                        RevertToFollower(t, Min(core[n].current_term + 1, MaxTerm))} :
                lead' = [lead EXCEPT ![n].replicationrx = Append(@, ev)]
    /\ UNCHANGED <<core, needs_shutdown, storage, pc, result, cand, task, builds,
                   rx_compaction, metrics, net, faults, observed>>

\* A candidate among the peers asks n for its vote.
EnvRequestVote(n) ==
    \E t \in EnvTerms(n), up_to_date \in BOOLEAN :
       /\ pc[EnvLeader(n, t)] = "off"
       /\ OnRequestVote(n, VoteRequest(t, EnvLeader(n, t),
              IF up_to_date THEN core[n].last_log_index ELSE 0,
              IF up_to_date THEN core[n].last_log_term ELSE 0))
       /\ UNCHANGED net

EnvRequestVoteFailed(n) ==
    \E t \in EnvTerms(n), up_to_date \in BOOLEAN :
       /\ pc[EnvLeader(n, t)] = "off"
       /\ OnRequestVoteFailed(n, VoteRequest(t, EnvLeader(n, t),
              IF up_to_date THEN core[n].last_log_index ELSE 0,
              IF up_to_date THEN core[n].last_log_term ELSE 0))
       /\ UNCHANGED net

\* The requests the leader of term t may send n: they agree with n's log up to
\* prev or probe past its end, carry at most one new entry of term t, and
\* never ask n to drop what is committed.
EnvAppendEntriesRequests(n, t) ==
    LET log == storage[n].log
        p == EnvLeader(n, t)
    IN  {rpc \in
            {AppendEntriesRequest(t, p, prev,
                 IF prev <= Len(log) THEN TermAt(log, prev) ELSE t, entries, commit) :
               prev \in 0..(Len(log) + 1),
               entries \in {<<>>, <<Normal(t, p)>>},
               commit \in 0..MaxLog} :
          /\ rpc.prev_log_index + Len(rpc.entries) <= MaxLog
          /\ rpc.leader_commit <= rpc.prev_log_index + Len(rpc.entries)
          /\ rpc.prev_log_index <= Len(log) => rpc.prev_log_term <= t
          /\ Conflicts(log, rpc) /= {}
                => rpc.prev_log_index + FirstConflict(log, rpc) > CommittedPrefix(n)}

EnvAppendEntries(n) ==
    \E t \in EnvTerms(n) :
       /\ pc[EnvLeader(n, t)] = "off"
       /\ ~(t = core[n].current_term /\ core[n].voted_for = Some(n)
              /\ core[n].target_state = "Leader")
       /\ \E rpc \in EnvAppendEntriesRequests(n, t) : OnAppendEntries(n, rpc)
       /\ UNCHANGED <<net, lead>>

\* The leader of term t sends n, in one chunk, a snapshot that reaches past
\* what n has committed.
EnvInstallSnapshot(n) ==
    \E t \in EnvTerms(n), lii \in {MaxLog}, offset \in {0}, done \in {TRUE} :
       /\ pc[EnvLeader(n, t)] = "off"
       /\ ~(t = core[n].current_term /\ core[n].voted_for = Some(n)
              /\ core[n].target_state = "Leader")
       /\ lii >= CommittedPrefix(n)
       /\ lii >= core[n].last_applied
       /\ OnInstallSnapshot(n, InstallSnapshotRequest(t, EnvLeader(n, t), lii, t,
                                                      offset, done, core[n].membership))

\* The leader of term t sends n the first chunk of a snapshot, the last one or
\* not.
EnvInstallChunk(n) ==
    \E t \in EnvTerms(n), lii \in 1..MaxLog, offset \in {0}, done \in BOOLEAN :
       /\ pc[EnvLeader(n, t)] = "off"
       /\ ~(t = core[n].current_term /\ core[n].voted_for = Some(n)
              /\ core[n].target_state = "Leader")
       /\ lii >= CommittedPrefix(n)
       /\ lii >= core[n].last_applied
       /\ OnInstallSnapshot(n, InstallSnapshotRequest(t, EnvLeader(n, t), lii, t,
                                                      offset, done, core[n].membership))

(***************************************************************************)
(* The node among peers that are not modelled.                             *)
(***************************************************************************)
Next ==
    \/ MainInit(Self)
    \/ MainFollower(Self)
    \/ FollowerExit(Self)
    \/ FollowerJoin(Self)
    \/ FollowerTimeout(Self)
    \/ FollowerNotification(Self)
    \/ WorkerRecv(Self)
    \/ MainCandidate(Self)
    \/ CandidateTimeout(Self)
    \/ CandidateExit(Self)
    \/ CandidateVoteResponse(Self)
    \/ MainLeader(Self)
    \/ LeaderExit(Self)
    \/ LeaderClientWrite(Self)
    \/ LeaderReplicaEvent(Self)
    \/ MainNonVoter(Self)
    \/ NonVoterExit(Self)
    \/ NonVoterInitialize(Self)
    \/ EnvVote(Self)
    \/ EnvReplicate(Self)
    \/ EnvRequestVote(Self)
    \/ EnvAppendEntries(Self)
    \/ EnvInstallSnapshot(Self)

Spec == Init /\ [][Next]_vars

(***************************************************************************)
(* The same node with an application that may ask for shutdown at any      *)
(* moment, started in a cluster of its own or among the voters.            *)
(***************************************************************************)
ShutdownInit ==
    /\ InitNodes({Self}, LogsSinceLast(DefaultThreshold), 0)
    /\ \E st \in RecoveredStorage(Self) :
          /\ st.membership \in {new_initial(Self), Membership(Voters, None)}
          /\ InitStorage(st)

ShutdownNext ==
    \/ Shutdown(Self)
    \/ Next

ShutdownSpec == ShutdownInit /\ [][ShutdownNext]_vars

(***************************************************************************)
(* The same node on a storage of which one call fails.                     *)
(***************************************************************************)
FaultInit ==
    /\ InitNodes({Self}, LogsSinceLast(DefaultThreshold), MaxFaults)
    /\ \E st \in RecoveredStorage(Self) :
          /\ st.membership \in {new_initial(Self), Membership(Voters, None)}
          /\ InitStorage(st)

FaultNext ==
    \/ MainShutdown(Self)
    \/ EnvRequestVoteFailed(Self)
    \/ Next

FaultSpec == FaultInit /\ [][FaultNext]_vars

(***************************************************************************)
(* The same node restarted as the one member of a cluster, or of a cluster *)
(* that was growing: the change from itself alone to the voters was in its *)
(* log, in joint consensus.                                                *)
(***************************************************************************)
GrowingConfig(n) == Membership({n}, Some(Voters \cup {n}))

RestartInit ==
    /\ InitNodes({Self}, LogsSinceLast(DefaultThreshold), 0)
    /\ \E st \in RecoveredStorage(Self) :
          \E cfg \in {new_initial(Self), GrowingConfig(Self)} :
             /\ st.membership = new_initial(Self)
             /\ cfg = GrowingConfig(Self) => st.log /= <<>>
             /\ InitStorage([st EXCEPT !.membership = cfg])

RestartSpec == RestartInit /\ [][Next]_vars

(***************************************************************************)
(* The same node with an application that sends it requests in every role. *)
(***************************************************************************)
ApiInit ==
    /\ InitNodes({Self}, LogsSinceLast(DefaultThreshold), 0)
    /\ \E st \in RecoveredStorage(Self) :
          /\ st.membership \in {new_initial(Self), Membership(Voters, None)}
          /\ st.last_applied_log = 0
          /\ InitStorage(st)

\* The node goes through its roles by elections and by the AppendEntries of
\* the leaders among its peers.
ApiNext ==
    \/ NonLeaderClientRequest(Self)
    \/ NonLeaderConfigChange(Self)
    \/ InitializeRejected(Self)
    \/ MainInit(Self)
    \/ MainFollower(Self)
    \/ FollowerExit(Self)
    \/ FollowerJoin(Self)
    \/ FollowerTimeout(Self)
    \/ WorkerRecv(Self)
    \/ MainCandidate(Self)
    \/ CandidateExit(Self)
    \/ CandidateVoteResponse(Self)
    \/ MainLeader(Self)
    \/ LeaderExit(Self)
    \/ MainNonVoter(Self)
    \/ NonVoterExit(Self)
    \/ NonVoterInitialize(Self)
    \/ EnvVote(Self)
    \/ EnvAppendEntries(Self)

ApiSpec == ApiInit /\ [][ApiNext]_vars

(***************************************************************************)
(* update_membership called on the core of a node in any role and with any *)
(* membership, with any configuration.                                     *)
(***************************************************************************)
States == {"NonVoter", "Follower", "Candidate", "Leader", "Shutdown"}

Configs ==
    InitMemberships(Self) \cup
       {GrowingConfig(Self), Membership({NumNodes}, Some({Self, NumNodes}))}

\* The record of a call: the function, the core it was called on, its argument.
Call(n, fn, before, arg) ==
    [type |-> "Call", from |-> n, to |-> n, fn |-> fn, before |-> before, arg |-> arg]

CallInit ==
    /\ \E m \in Configs, s \in States :
          core = [n \in Nodes |->
                    IF n = Self
                    THEN [SpawnCore(n, LogsSinceLast(DefaultThreshold))
                             EXCEPT !.membership = m, !.target_state = s]
                    ELSE SpawnCore(n, LogsSinceLast(DefaultThreshold))]
    /\ needs_shutdown = [n \in Nodes |-> FALSE]
    /\ pc = [n \in Nodes |-> IF n = Self THEN "call" ELSE "off"]
    /\ result = [n \in Nodes |-> "Running"]
    /\ cand = [n \in Nodes |-> NewCandidate]
    /\ lead = [n \in Nodes |-> NewLeader]
    /\ task = [n \in Nodes |-> NoTask]
    /\ builds = [n \in Nodes |-> <<>>]
    /\ rx_compaction = [n \in Nodes |-> <<>>]
    /\ metrics = [n \in Nodes |-> None]
    /\ net = {}
    /\ faults = 0
    /\ observed = [n \in Nodes |-> FALSE]
    /\ InitStorage(Storage(HardState(0, None), <<>>, new_initial(Self), 0, None, <<>>))

CallUpdateMembership(n) ==
    /\ pc[n] = "call"
    /\ \E cfg \in Configs :
          /\ core' = [core EXCEPT ![n] = update_membership(core[n], cfg)]
          /\ net' = {Call(n, "update_membership", core[n], cfg)}
    /\ UNCHANGED <<needs_shutdown, storage, pc, result, cand, lead, task, builds,
                   rx_compaction, metrics, faults, observed>>

\* The logs a worker is called on: entries of term 1 of the three stored kinds.
CallLogs ==
    UNION {[1..k -> {Normal(1, 1), Blank(1), ConfigChange(1, Membership(Voters, None))}] :
              k \in 0..(MaxLog + 1)}

\* The apply worker, with everything up to some index applied, takes a
\* Commited event and finds the storage in order.
CallWorker(n) ==
    /\ pc[n] = "call"
    /\ core[n].target_state = "Follower"
    /\ core[n].membership = Membership(Voters, None)
    /\ \E log \in CallLogs, a \in 0..MaxLog, ci \in 0..(MaxLog + 1),
          lli \in 0..(MaxLog + 1), la \in 0..(MaxLog + 1) :
          LET w0 == [SpawnTask EXCEPT !.last_applied = a, !.commit_index = a,
                                      !.last_log_index = a]
              ev == Commited(ci, lli, la)
              st == [storage[n] EXCEPT !.log = log,
                                       !.last_applied_log = a,
                                       !.sm = AppliedPrefix(log, a)]
          IN  /\ a <= Len(log)
              /\ task' = [task EXCEPT ![n] = worker_on_commited(w0, ev, st, "ok")]
              /\ storage' = [storage EXCEPT ![n] =
                     replicate_to_state_machine(st,
                         data_entries(entries_to_apply(merge_commited(w0, ev), st)))]
              /\ net' = {Call(n, "replicate_to_state_machine_if_needed",
                              [task |-> w0, storage |-> st], ev)}
    /\ pc' = [pc EXCEPT ![n] = "returned"]
    /\ UNCHANGED <<core, needs_shutdown, result, cand, lead, builds,
                   rx_compaction, metrics, faults, observed>>

\* The snapshot states a core is called in.
CallSnapshotStates ==
    {None}
    \cup {Some(Snapshotting(t, h)) : t \in 1..MaxLog, h \in 1..MaxBuilds}
    \cup {Some(Streaming(o, id)) : o \in 1..2, id \in 1..MaxLog}

CallUpdateSnapshotState(n) ==
    /\ pc[n] = "call"
    /\ core[n].target_state = "Follower"
    /\ core[n].membership = Membership(Voters, None)
    /\ \E ss \in CallSnapshotStates, si \in 0..MaxLog,
          update \in {SnapshotComplete(i) : i \in 1..MaxLog} \cup {SnapshotFailed} :
          LET c == [core[n] EXCEPT !.snapshot_state = ss, !.snapshot_index = si]
          IN  /\ core' = [core EXCEPT ![n] = update_snapshot_state(c, update)]
              /\ net' = {Call(n, "update_snapshot_state", c, update)}
    /\ pc' = [pc EXCEPT ![n] = "returned"]
    /\ UNCHANGED <<needs_shutdown, storage, result, cand, lead, task, builds,
                   rx_compaction, metrics, faults, observed>>

CallNext ==
    \/ CallUpdateMembership(Self)
    \/ CallWorker(Self)
    \/ CallUpdateSnapshotState(Self)

CallSpec == CallInit /\ [][CallNext]_vars

(***************************************************************************)
(* A voter configured to compact its log every Threshold entries, with     *)
(* the compaction tasks it spawns and the snapshots its leaders stream.    *)
(***************************************************************************)
\* What an earlier run left that applied the entries of log and compacted
\* them through index k.
CompactedStorage(log) ==
    {Storage(HardState(LastTerm(log), None), log, Membership(Voters, None),
             Len(log), Some(k), AppliedPrefix(log, Len(log))) : k \in 1..Len(log)}

CompactionInit ==
    /\ InitNodes({Self}, LogsSinceLast(Threshold), 0)
    /\ \E st \in {Storage(HardState(0, None), <<>>, Membership(Voters, None),
                           0, None, <<>>)}
                  \cup CompactedStorage(<<Normal(1, 1), Normal(1, 2)>>) :
          InitStorage(st)

CompactionNext ==
    \/ MainInit(Self)
    \/ MainFollower(Self)
    \/ FollowerExit(Self)
    \/ FollowerJoin(Self)
    \/ FollowerTimeout(Self)
    \/ FollowerNotification(Self)
    \/ WorkerRecv(Self)
    \/ MainCandidate(Self)
    \/ CandidateExit(Self)
    \/ RecvCompaction(Self)
    \/ BuildFinish(Self)
    \/ EnvAppendEntries(Self)
    \/ EnvInstallChunk(Self)

CompactionSpec == CompactionInit /\ [][CompactionNext]_vars

(***************************************************************************)
(* Properties.                                                             *)
(***************************************************************************)
Started(n) == pc[n] \notin {"off", "init"}

\* C1: in every state of a node that has loaded its recovered state,
\* 0 <= last_applied <= commit_index <= last_log_index.
C1_IndexOrder ==
    \A n \in Nodes :
       Started(n) => /\ 0 <= core[n].last_applied
                     /\ core[n].last_applied <= core[n].commit_index
                     /\ core[n].commit_index <= core[n].last_log_index

\* C3: a node that has voted in a term does not change its vote while the
\* term stays the same.
C3_OneVotePerTerm ==
    [][\A n \in Nodes :
          (IsSome(core[n].voted_for) /\ core'[n].current_term = core[n].current_term)
             => core'[n].voted_for = core[n].voted_for]_vars

\* A node has granted its vote to a peer in a term, and the grant is on disk.
C3_Witness ==
    \E n \in Nodes :
       /\ Started(n)
       /\ IsSome(core[n].voted_for)
       /\ core[n].voted_for /= Some(n)
       /\ core[n].current_term = MaxTerm
       /\ storage[n].hard_state = HardState(core[n].current_term, core[n].voted_for)

\* C6: no step of a node lowers its current_term.
C6_TermMonotonic ==
    [][\A n \in Nodes : core'[n].current_term >= core[n].current_term]_vars

\* A candidate has raised its term above the term of everything in its log.
C6_Witness ==
    \E n \in Nodes :
       /\ pc[n] = "candidate"
       /\ core[n].voted_for = Some(n)
       /\ core[n].current_term > core[n].last_log_term + 1

C8_LastAppliedMonotonic ==
    [][\A n \in Nodes : core'[n].last_applied >= core[n].last_applied]_vars

\* C9: the state machine is handed no index twice.
C9_AppliedOnce ==
    \A n \in Nodes :
       \A i, j \in DOMAIN storage[n].sm :
          i /= j => storage[n].sm[i][1] /= storage[n].sm[j][1]

\* C10: once a role driver has read the shutdown flag as set and returned,
\* the core enters no role driver again: it stays at the head of main's loop
\* or ends, and its term stays what it is.
C10_ShutdownExits ==
    [][\A n \in Nodes :
          (observed[n] /\ pc[n] = "main")
             => /\ pc'[n] \in {"main", "done"}
                /\ core'[n].current_term = core[n].current_term]_vars

\* The members of group whose log leader n knows to reach index i, after
\* the step.
Matched(n, group, i) ==
    {m \in group :
        \/ m = n /\ core'[n].last_log_index >= i
        \/ /\ m \in DOMAIN lead'[n].nodes
           /\ lead'[n].nodes[m].match_index >= i}

\* C5: a step in which a leader in joint consensus moves commit_index up to i
\* leaves a majority of the old group and a majority of the new group matched
\* at i or beyond, and entry i is of the leader's term.
C5_JointCommit ==
    [][\A n \in Nodes :
          (/\ pc'[n] = "leader"
           /\ core'[n].target_state = "Leader"
           /\ is_in_joint_consensus(core'[n].membership)
           /\ core'[n].commit_index > core[n].commit_index)
             => LET i == core'[n].commit_index
                    old == core'[n].membership.members
                    new == Unwrap(core'[n].membership.members_after_consensus)
                IN  /\ 2 * Cardinality(Matched(n, old, i)) > Cardinality(old)
                    /\ 2 * Cardinality(Matched(n, new, i)) > Cardinality(new)
                    /\ TermAt(storage'[n].log, i) = core'[n].current_term]_vars

\* A leader in joint consensus has committed an entry of its term that the
\* node of the new group has matched.
C5_Witness ==
    \E n \in Nodes :
       /\ pc[n] = "leader"
       /\ core[n].target_state = "Leader"
       /\ is_in_joint_consensus(core[n].membership)
       /\ core[n].commit_index > 0
       /\ TermAt(storage[n].log, core[n].commit_index) = core[n].current_term
       /\ n \notin Unwrap(core[n].membership.members_after_consensus)
       /\ \A m \in Unwrap(core[n].membership.members_after_consensus) :
             lead[n].nodes[m].match_index >= core[n].commit_index

(***************************************************************************)
(* A cluster of nodes that all run, in joint consensus between the voters  *)
(* and the last node.  RPCs travel between the nodes themselves.           *)
(***************************************************************************)
JointConfig == Membership(Voters, Some({NumNodes}))

\* Every node holds the joint configuration, appended in term 1.
ClusterStorage ==
    Storage(HardState(1, None), <<ConfigChange(1, JointConfig)>>, JointConfig, 0,
            None, <<>>)

ClusterInit ==
    /\ InitNodes(Nodes, LogsSinceLast(DefaultThreshold), 0)
    /\ storage = [n \in Nodes |-> ClusterStorage]

\* The election timers that fire: that of a node of the old group once the
\* cluster has started, and that of the node of the new group, which has not
\* heard from the leader the first election made.
OldGroupTimeout ==
    /\ \A m \in Nodes : pc[m] = "follower"
    /\ FollowerTimeout(Self)

NewGroupTimeout ==
    /\ pc[Self] = "leader"
    /\ core[NumNodes].current_term < core[Self].current_term
    /\ FollowerTimeout(NumNodes)

\* The network carries messages between two nodes unless their link is down.
LinksDown == {{Self, NumNodes - 1}, {Self + 1, NumNodes}}

Linked(a, b) == {a, b} \notin LinksDown

\* A vote request reaches its target, which answers it.
PeerRequestVote(p) ==
    \E m \in net :
       /\ m.type = "RequestVote" /\ m.to = p
       /\ Linked(m.from, p)
       /\ OnRequestVote(p, m.rpc)
       /\ LET h == handle_vote_request(AtSelect(p), storage[p], m.rpc)
          IN  net' = (net \ {m}) \cup
                     (IF pc[m.from] = "candidate"
                         /\ core[m.from].current_term = m.rpc.term
                      THEN {VoteReply(p, m.from, m.rpc.term, h.resp)} ELSE {})

\* Where the back-off of next_index ends: the last index at which the logs of
\* the leader and of the target agree.
AgreedPrefix(logL, logp) ==
    LET S == {i \in 0..Min(Len(logL), Len(logp)) : TermAt(logL, i) = TermAt(logp, i)}
    IN  CHOOSE i \in S : \A j \in S : j <= i

\* The replication stream of leader L for target p sends what follows the
\* agreed prefix; p handles the request and the stream reports the outcome.
Replicate(L, p) ==
    /\ pc[L] = "leader"
    /\ Continue(L)
    /\ p \in DOMAIN lead[L].nodes
    /\ Linked(L, p)
    /\ Len(lead[L].replicationrx) < MaxQueue
    /\ lead[L].nodes[p].match_index < core[L].last_log_index
    /\ LET logL == storage[L].log
           prev == AgreedPrefix(logL, storage[p].log)
           rpc == AppendEntriesRequest(core[L].current_term, L, prev, TermAt(logL, prev),
                                       SubSeq(logL, prev + 1, Len(logL)),
                                       core[L].commit_index)
           h == handle_append_entries_request(AtSelect(p), storage[p], rpc)
           ev == IF h.resp.term > core[L].current_term
                 THEN RevertToFollower(p, h.resp.term)
                 ELSE UpdateMatchIndex(p, IF h.resp.success THEN Len(logL) ELSE 0,
                                       LastTerm(logL))
       IN  /\ OnAppendEntries(p, rpc)
           /\ lead' = [lead EXCEPT ![L].replicationrx = Append(@, ev)]
           /\ UNCHANGED net

ClusterNext ==
    \/ \E n \in Nodes : MainInit(n)
    \/ \E n \in Nodes : MainFollower(n)
    \/ OldGroupTimeout
    \/ NewGroupTimeout
    \/ \E n \in Nodes : FollowerExit(n)
    \/ \E n \in Nodes : FollowerJoin(n)
    \/ \E n \in Nodes : FollowerNotification(n)
    \/ \E n \in Nodes : WorkerRecv(n)
    \/ \E n \in Nodes : MainCandidate(n)
    \/ \E n \in Nodes : CandidateExit(n)
    \/ \E n \in Nodes : CandidateVoteResponse(n)
    \/ \E n \in Nodes : MainLeader(n)
    \/ \E n \in Nodes : LeaderClientWrite(n)
    \/ \E n \in Nodes : LeaderReplicaEvent(n)
    \/ \E n \in Nodes : PeerRequestVote(n)
    \/ \E L, p \in Nodes : Replicate(L, p)

ClusterSpec == ClusterInit /\ [][ClusterNext]_vars

\* C2: no two nodes are Leader of the same term.
C2_OneLeaderPerTerm ==
    \A m, n \in Nodes :
       (/\ m /= n
        /\ core[m].target_state = "Leader"
        /\ core[n].target_state = "Leader")
          => core[m].current_term /= core[n].current_term

\* C4: two nodes hold the same entry at every index both have committed.
C4_CommittedAgree ==
    \A m, n \in Nodes :
       \A i \in 1..Min(core[m].commit_index, core[n].commit_index) :
          (i <= Len(storage[m].log) /\ i <= Len(storage[n].log))
             => storage[m].log[i] = storage[n].log[i]

\* The positions a core task is at while a role driver runs.
Drivers == {"follower", "follower_join", "candidate", "leader", "nonvoter"}

\* A call of the core of n to the storage fails in this step: n is the node
\* that runs, the fault is spent and the apply worker, which has storage calls
\* of its own, has not moved.
CoreCallFails(n) ==
    /\ pc[n] \notin {"off", "done"}
    /\ faults' < faults
    /\ task'[n] = task[n]

\* C11: a storage call of the core that fails makes Shutdown the target
\* state; a call made by main, or by a driver on its way into its loop, ends
\* the core task there, and a task that ends on the failing call returns the
\* error; once the target state is Shutdown it stays so and the core task
\* enters no role driver again.
C11_FatalStorageError ==
    [][\A n \in Nodes :
          /\ CoreCallFails(n) =>
                /\ core'[n].target_state = "Shutdown"
                /\ pc[n] \in {"init", "main"} => pc'[n] = "done"
                /\ pc'[n] = "done" => result'[n] = "Err"
          /\ core[n].target_state = "Shutdown" =>
                /\ core'[n].target_state = "Shutdown"
                /\ pc'[n] \in Drivers => pc'[n] \in {pc[n], "follower_join"}]_vars

\* A vote handler's save_hard_state failed, the driver left its loop and main
\* returned.
C11_Witness ==
    /\ pc[Self] = "done"
    /\ result[Self] = "Ok"
    /\ core[Self].target_state = "Shutdown"
    /\ faults < MaxFaults

\* C12: once the follower has taken the worker's Error, the core task enters
\* no role driver again and ends with Shutdown as its target state.
C12_WorkerErrorFatal ==
    [][\A n \in Nodes :
          (needs_shutdown[n] /\ pc[n] = "main") =>
             /\ pc'[n] \in {"main", "done"}
             /\ core'[n].target_state = "Shutdown"]_vars

\* C13: main leaves its initialisation with commit_index 0 and with the role
\* the recovered state gives: Leader when the membership names no node but
\* this one and the log is not empty, Follower when the membership names a
\* peer, NonVoter otherwise.
C13_InitialRole ==
    [][\A n \in Nodes :
          (pc[n] = "init" /\ pc'[n] = "main") =>
             LET m == storage[n].membership
                 role == IF all_nodes(m) = {n} /\ storage[n].log /= <<>> THEN "Leader"
                         ELSE IF all_nodes(m) \ {n} /= {} THEN "Follower"
                         ELSE "NonVoter"
             IN  /\ core'[n].commit_index = 0
                 /\ core'[n].target_state = role]_vars

\* C14: the role drivers change target_state through set_target_state alone,
\* and set_target_state makes no node Follower that is not in its membership:
\* a step of a driver that changes the target state of such a node does not
\* change it to Follower.
C14_FollowerCoerced ==
    [][\A n \in Nodes :
          (/\ pc[n] \notin {"off", "init"}
           /\ core'[n].target_state /= core[n].target_state
           /\ ~contains(core'[n].membership, n))
             => core'[n].target_state /= "Follower"]_vars

\* The answers a step puts on the channel of a request of the given kinds,
\* made to n while it is in one of the given roles.
Answers(n, requests, roles) ==
    {m \in net' \ net :
        /\ m.type = "Reply" /\ m.from = n
        /\ m.request \in requests
        /\ pc[n] \in roles}

\* The step leaves the core and the storage of n as they are at the select.
Untouched(n) == core'[n] = AtSelect(n) /\ storage'[n] = storage[n] /\ pc'[n] = pc[n]

\* C16: a node that is NonVoter, Follower or Candidate answers a client read
\* or write with ForwardToLeader and its current_leader, and the step changes
\* nothing of its core or storage.
C16_ForwardToLeader ==
    [][\A n \in Nodes :
          \A m \in Answers(n, {"ClientRead", "ClientWrite"},
                           {"nonvoter", "follower", "candidate"}) :
             /\ m.error = ClientError("ForwardToLeader", core[n].current_leader)
             /\ Untouched(n)]_vars

\* A follower that knows its leader has forwarded a client write.
C16_Witness ==
    \E m \in net :
       /\ m.type = "Reply" /\ m.request = "ClientWrite"
       /\ m.error.kind = "ForwardToLeader" /\ IsSome(m.error.leader)
       /\ pc[Self] = "follower"
       /\ core[Self].current_leader = m.error.leader

\* C17: a node that is NonVoter, Follower or Candidate answers AddNonVoter and
\* ChangeMembership with NodeNotLeader and its current_leader, and the step
\* changes neither its membership nor its role nor anything else of its core.
C17_ConfigChangeRejected ==
    [][\A n \in Nodes :
          \A m \in Answers(n, {"AddNonVoter", "ChangeMembership"},
                           {"nonvoter", "follower", "candidate"}) :
             /\ m.error = ClientError("NodeNotLeader", core[n].current_leader)
             /\ core'[n].membership = core[n].membership
             /\ core'[n].target_state = core[n].target_state
             /\ Untouched(n)]_vars

\* A candidate that has heard of no leader has rejected a membership change.
C17_Witness ==
    \E m \in net :
       /\ m.type = "Reply" /\ m.request = "ChangeMembership"
       /\ m.error.kind = "NodeNotLeader"
       /\ pc[Self] = "candidate"
       /\ core[Self].current_leader = m.error.leader

\* C18: a node that is Follower, Candidate or Leader answers Initialize with
\* NotAllowed and the step changes nothing of its core or storage; a step that
\* initializes a node, giving a pristine node its membership and its first
\* role, is a step of the NonVoter driver.
C18_InitializeNotAllowed ==
    [][\A n \in Nodes :
          /\ \A m \in Answers(n, {"Initialize"}, {"follower", "candidate", "leader"}) :
                /\ m.error = ClientError("NotAllowed", None)
                /\ Untouched(n)
          /\ (/\ pc[n] \in Drivers
              /\ core[n].last_log_index = 0 /\ core[n].current_term = 0
              /\ core[n].target_state = "NonVoter"
              /\ core'[n].target_state \in {"Leader", "Follower"})
                => pc[n] = "nonvoter"]_vars

\* A leader has answered Initialize.
C18_Witness ==
    \E m \in net :
       /\ m.type = "Reply" /\ m.request = "Initialize"
       /\ m.error.kind = "NotAllowed"
       /\ pc[Self] = "leader"

\* C15: after update_membership(cfg) the membership is cfg; the target state
\* is NonVoter when the node's id is in neither group of cfg, Follower when
\* the node was NonVoter and is in cfg.members, and what it was otherwise;
\* nothing else of the core has changed.
C15_UpdateMembership ==
    \A m \in net :
       (m.type = "Call" /\ m.fn = "update_membership") =>
          LET b == m.before
              cfg == m.arg
              c == core[m.from]
              target ==
                 IF b.id \notin cfg.members
                    /\ (IsSome(cfg.members_after_consensus) =>
                           b.id \notin Unwrap(cfg.members_after_consensus))
                 THEN "NonVoter"
                 ELSE IF b.target_state = "NonVoter" /\ b.id \in cfg.members
                      THEN "Follower"
                      ELSE b.target_state
          IN  c = [b EXCEPT !.membership = cfg, !.target_state = target]

\* A NonVoter was called with a configuration that has it in the new group
\* alone, and stays NonVoter.
C15_Witness ==
    \E m \in net :
       /\ m.type = "Call" /\ m.fn = "update_membership"
       /\ m.before.target_state = "NonVoter"
       /\ m.before.id \notin m.arg.members
       /\ contains(m.arg, m.before.id)
       /\ core[m.from].target_state = "NonVoter"

\* The compaction tasks of n that are at work.
Running(n) == {h \in DOMAIN builds[n] : builds[n][h].status = "running"}

\* C19: a node has at most one compaction task at work, and none while it
\* streams a snapshot in.
C19_OneSnapshotActivity ==
    \A n \in Nodes :
       /\ Cardinality(Running(n)) <= 1
       /\ Running(n) /= {} => ~IsStreaming(core[n])

\* C20: at the follower's Applied notification, the one place that calls it,
\* trigger_log_compaction_if_needed starts a build through
\* min(commit_index, last_log_index) and makes that the Snapshotting state
\* when no snapshot state is active and that index is at least threshold
\* past snapshot_index, and otherwise starts nothing and leaves the
\* snapshot state as it is.
C20_CompactionTrigger ==
    [][\A n \in Nodes :
          (/\ pc[n] = "follower"
           /\ task[n].replication_rx /= <<>>
           /\ Head(task[n].replication_rx).kind = "Applied"
           /\ task'[n].replication_rx = Tail(task[n].replication_rx)
           /\ task'[n].event_rx = task[n].event_rx) =>
             LET c == AtSelect(n)
                 t == Min(c.commit_index, c.last_log_index)
                 start == /\ ~IsSome(c.snapshot_state)
                          /\ t - c.snapshot_index >= c.config.snapshot_policy
             IN  IF start
                 THEN /\ core'[n].snapshot_state =
                            Some(Snapshotting(t, Len(builds[n]) + 1))
                      /\ builds'[n] = Append(builds[n], Build(t))
                 ELSE /\ core'[n].snapshot_state = c.snapshot_state
                      /\ builds'[n] = builds[n]]_vars

\* The nodes leader n runs a replication stream to, as voters and as non-voters.
Streams(n) == DOMAIN lead[n].nodes \cup DOMAIN lead[n].non_voters

RequestsOf(msgs, n) == {m \in msgs : m.type = "RequestVote" /\ m.from = n}

\* C22: a step that sends vote requests of candidate n has raised
\* current_term by exactly 1, set voted_for to n, cleared current_leader and
\* stored that term and vote as the hard state, and the requests carry that
\* term; at all times a vote request of n carries no term beyond the one in
\* n's stored hard state, so an election whose save_hard_state fails sends none.
C22_ElectionStart ==
    [][\A n \in Nodes :
          /\ RequestsOf(net', n) \ RequestsOf(net, n) /= {} =>
                /\ core'[n].current_term = core[n].current_term + 1
                /\ core'[n].voted_for = Some(n)
                /\ core'[n].current_leader = None
                /\ storage'[n].hard_state = HardState(core'[n].current_term, Some(n))
                /\ \A m \in RequestsOf(net', n) \ RequestsOf(net, n) :
                      m.rpc.term = core'[n].current_term
          /\ \A m \in RequestsOf(net', n) :
                m.rpc.term <= storage'[n].hard_state.current_term
          /\ (/\ pc[n] = "candidate" \/ (pc[n] = "main" /\ core[n].target_state = "Candidate")
              /\ pc'[n] = "done") =>
                RequestsOf(net', n) \ RequestsOf(net, n) = {}]_vars

\* A candidate that knew a leader has started its election of term 2: its
\* vote requests are out and the leader is forgotten.
C22_Witness ==
    /\ pc[Self] = "candidate"
    /\ core[Self].current_term = 2
    /\ core[Self].current_leader = None
    /\ storage[Self].hard_state = HardState(2, Some(Self))
    /\ \E m \in RequestsOf(net, Self) : m.rpc.term = 2

\* The nodes of group whose vote of n's term went to n, n's own included.
Granted(n, group) ==
    {p \in group : /\ core[p].current_term = core[n].current_term
                   /\ core[p].voted_for = Some(n)}

Majority(group) == (Cardinality(group) \div 2) + 1

\* C23: a candidate becomes Leader only when a majority of the old group has
\* granted it the vote of its term and, if the membership is joint, a
\* majority of the new group has too.
C23_LeaderByMajorities ==
    [][\A n \in Nodes :
          (core[n].target_state = "Candidate" /\ core'[n].target_state = "Leader") =>
             LET m == core[n].membership
             IN  /\ Cardinality(Granted(n, m.members)) >= Majority(m.members)
                 /\ IsSome(m.members_after_consensus) =>
                       Cardinality(Granted(n, Unwrap(m.members_after_consensus)))
                           >= Majority(Unwrap(m.members_after_consensus))]_vars

\* C24: a worker that finds commit_index > last_applied has read the entries
\* from last_applied + 1 through min(commit_index, last_log_index), has
\* handed the state machine the normal ones among them, in index order, and
\* has its last_applied at the last entry read, normal or not; a worker that
\* read nothing has its last_applied where it was and has handed the state
\* machine nothing.
C24_WorkerApply ==
    \A m \in net :
       (m.type = "Call" /\ m.fn = "replicate_to_state_machine_if_needed") =>
          LET w0 == m.before.task
              log == m.before.storage.log
              ci == Max(w0.commit_index, m.arg.commit_index)
              lli == Max(w0.last_log_index, m.arg.last_log_index)
              la == Max(w0.last_applied, m.arg.last_applied)
              hi == Min(Min(ci, lli), Len(log))
              n_read == IF ci > la /\ hi > la THEN hi - la ELSE 0
              read == [k \in 1..n_read |-> la + k]
              normal == SelectSeq(read, LAMBDA i : log[i].kind = "Normal")
              delivered == [k \in 1..Len(normal) |-> <<normal[k], log[normal[k]].data>>]
          IN  /\ task[m.from].last_applied = IF n_read = 0 THEN la ELSE hi
              /\ storage[m.from].sm = m.before.storage.sm \o delivered
              /\ storage[m.from].log = log

\* A worker read two entries or more, a normal one among them, and the last
\* one read was not a normal one.
C24_Witness ==
    \E m \in net :
       /\ m.type = "Call" /\ m.fn = "replicate_to_state_machine_if_needed"
       /\ task[m.from].last_applied >= m.before.task.last_applied + 2
       /\ m.arg.last_applied <= m.before.task.last_applied
       /\ m.before.storage.log[task[m.from].last_applied].kind /= "Normal"
       /\ Len(storage[m.from].sm) > Len(m.before.storage.sm)

\* C25: after update_snapshot_state a Snapshotting state is cleared, whether
\* the update is SnapshotComplete or SnapshotFailed, a Streaming state is
\* what it was, snapshot_index is the index of a SnapshotComplete and is what
\* it was after a SnapshotFailed, and nothing else of the core has changed.
C25_UpdateSnapshotState ==
    \A m \in net :
       (m.type = "Call" /\ m.fn = "update_snapshot_state") =>
          LET b == m.before
              c == core[m.from]
          IN  /\ IsSnapshotting(b) => c.snapshot_state = None
              /\ IsStreaming(b) => c.snapshot_state = b.snapshot_state
              /\ ~IsSome(b.snapshot_state) => c.snapshot_state = None
              /\ c.snapshot_index = IF m.arg.kind = "SnapshotComplete"
                                    THEN m.arg.index ELSE b.snapshot_index
              /\ c = [b EXCEPT !.snapshot_state = c.snapshot_state,
                               !.snapshot_index = c.snapshot_index]

\* A core that was streaming a snapshot in took SnapshotComplete(1): it still
\* streams, and its snapshot_index has moved from 2 to 1.
C25_Witness ==
    \E m \in net :
       /\ m.type = "Call" /\ m.fn = "update_snapshot_state"
       /\ IsStreaming(m.before) /\ m.before.snapshot_index = 2
       /\ m.arg = SnapshotComplete(1)
       /\ IsStreaming(core[m.from]) /\ core[m.from].snapshot_index = 1

\* C26: when the leader driver returns, from its loop or with the error of
\* the initial leader entry, every replication stream it spawned has been
\* sent Terminate.
C26_StreamsTerminated ==
    [][\A n \in Nodes :
          (\/ pc[n] = "leader" /\ pc'[n] /= "leader"
           \/ pc[n] = "main" /\ core[n].target_state = "Leader" /\ pc'[n] = "done") =>
             Streams(n) \cup DOMAIN lead'[n].nodes \cup DOMAIN lead'[n].non_voters
                 \subseteq lead'[n].terminated]_vars

\* C27: when the follower takes the ReportMetrics that its worker sent for an
\* apply, the metrics it publishes carry the last_applied of that apply: the
\* index of the Applied notification the worker sent along with it.
C27_MetricsAfterApply ==
    [][\A n \in Nodes :
          (/\ pc[n] = "follower"
           /\ task[n].replication_rx /= <<>>
           /\ Head(task[n].replication_rx).kind = "ReportMetrics"
           /\ task'[n].replication_rx = Tail(task[n].replication_rx)
           /\ task'[n].event_rx = task[n].event_rx) =>
             metrics'[n].last_applied = task[n].replication_rx[2].index]_vars

\* C28: snapshot_index never decreases: a driver that takes a
\* SnapshotComplete(index) of a compaction task from rx_compaction does not
\* lower snapshot_index below what a later task or an installed snapshot
\* has established.
C28_SnapshotIndexMonotonic ==
    [][\A n \in Nodes :
          (/\ rx_compaction[n] /= <<>>
           /\ Head(rx_compaction[n]).kind = "SnapshotComplete"
           /\ rx_compaction'[n] = Tail(rx_compaction[n])) =>
             core'[n].snapshot_index >= core[n].snapshot_index]_vars

\* C29: a SnapshotUpdate clears only the Snapshotting state of the task that
\* sent it: while the task of the Snapshotting state is still at work (it
\* has sent nothing yet), an update a driver takes from rx_compaction, which
\* is one of an earlier or aborted task, leaves that state in place.
C29_UpdateClearsOwnBuild ==
    [][\A n \in Nodes :
          (/\ rx_compaction[n] /= <<>>
           /\ rx_compaction'[n] = Tail(rx_compaction[n])
           /\ IsSnapshotting(core[n])
           /\ Unwrap(core[n].snapshot_state).handle \in Running(n)) =>
             core'[n].snapshot_state = core[n].snapshot_state]_vars

\* C30: whenever trigger_log_compaction_if_needed, called at the follower's
\* Applied notification, gets to the comparison with the threshold (no
\* snapshot state is active and min(commit_index, last_log_index) is not 0),
\* snapshot_index is at most min(commit_index, last_log_index), so that the
\* u64 subtraction does not underflow; a node restarted over a stored
\* snapshot included.
C30_NoUnderflow ==
    [][\A n \in Nodes :
          (/\ pc[n] = "follower"
           /\ task[n].replication_rx /= <<>>
           /\ Head(task[n].replication_rx).kind = "Applied"
           /\ task'[n].replication_rx = Tail(task[n].replication_rx)
           /\ task'[n].event_rx = task[n].event_rx
           /\ AtSelect(n).snapshot_state = None
           /\ Min(AtSelect(n).commit_index, AtSelect(n).last_log_index) /= 0) =>
             AtSelect(n).snapshot_index
                <= Min(AtSelect(n).commit_index, AtSelect(n).last_log_index)]_vars

\* C31: a node whose id is in neither group of its membership does not run
\* the follower driver with its election timer and is not a candidate,
\* whether it recovered that membership at startup or took it from the
\* leader.
C31_NonMemberNoElection ==
    \A n \in Nodes :
       (/\ pc[n] \in {"follower", "candidate"}
        /\ core[n].target_state \in {"Follower", "Candidate"}) =>
          \/ n \in core[n].membership.members
          \/ /\ IsSome(core[n].membership.members_after_consensus)
             /\ n \in Unwrap(core[n].membership.members_after_consensus)

\* C32: a candidate that starts an election counts its own vote in the tally
\* of a group only if it is a member of that group: the tally of the old
\* group starts at 1 if it is in members and at 0 if not, the tally of the
\* new group of a joint membership likewise; and when the membership is not
\* joint, the new-group tally asks for no vote.
C32_SelfVoteInOwnGroup ==
    [][\A n \in Nodes :
          (/\ pc'[n] = "candidate"
           /\ core'[n].current_term = core[n].current_term + 1
           /\ core'[n].voted_for = Some(n)) =>
             LET m == core'[n].membership
             IN  /\ cand'[n].votes_granted_old = (IF n \in m.members THEN 1 ELSE 0)
                 /\ IF IsSome(m.members_after_consensus)
                    THEN cand'[n].votes_granted_new =
                            (IF n \in Unwrap(m.members_after_consensus) THEN 1 ELSE 0)
                    ELSE cand'[n].votes_granted_new >= cand'[n].votes_needed_new]_vars

\* C33: an apply worker that ends on an error of the storage (get_log_entries
\* or replicate_to_state_machine fails) hands back a last_applied that is
\* not past the last entry the state machine has applied: entries it read
\* and did not apply are not counted.
C33_FailedWorkerLastApplied ==
    [][\A n \in Nodes :
          (/\ task[n].running
           /\ ~task'[n].running
           /\ faults' < faults) =>
             task'[n].last_applied <= storage'[n].last_applied_log]_vars

\* C34: the end of every compaction task that was started, by completion,
\* failure or abort, reaches the core as a SnapshotUpdate: when the task
\* ends, its update is put on rx_compaction and is not dropped because the
\* channel is full, so that the Snapshotting state of the task gets cleared.
C34_UpdateDelivered ==
    [][\A n \in Nodes :
          \A h \in DOMAIN builds[n] :
             (/\ pc[n] \notin {"off", "done"}
              /\ builds[n][h].status /= "done"
              /\ builds'[n][h].status = "done") =>
                Len(rx_compaction'[n]) = Len(rx_compaction[n]) + 1]_vars

=============================================================================
